---- MODULE Spec2Model ----
(***************************************************************************)
(* Intelligent Threshold Engine of volcengine/veaiops.                     *)
(*                                                                         *)
(* Part 1: the priority scheduler of ThresholdRecommender                  *)
(* (algorithm/intelligent_threshold/threshold_recommender.py): the heap    *)
(* task_queue, the dict running_tasks, the asyncio tasks it creates and    *)
(* the completion hook with its retried persistence.                       *)
(*                                                                         *)
(* The event loop is single threaded: a coroutine runs until it suspends.  *)
(* The critical sections under queue_lock contain no await, and acquiring  *)
(* an uncontended asyncio.Lock does not suspend, so handle_task and        *)
(* _process_queue each run as one step.  Done callbacks and tasks made by  *)
(* asyncio.create_task run later, in any order: each is an action.         *)
(***************************************************************************)
EXTENDS Integers, Sequences, FiniteSets, TLC

VARIABLES
    max_concurrent_tasks, \* ThresholdRecommender.max_concurrent_tasks
    task_queue,           \* ThresholdRecommender.task_queue: heapq array of TaskRequest
    running_tasks,        \* ThresholdRecommender.running_tasks: task_key -> asyncio task (by rid)
    calc_tasks,           \* the asyncio tasks made for _execute_task: rid -> [state, outcome]
    started,              \* order in which _process_queue started requests (rids)
    requests,             \* every TaskRequest constructed by handle_task, by rid
    clock,                \* time.time()
    pq_tasks,             \* number of created, not yet run _process_queue tasks
    update_tasks,         \* the _update_task_result tasks made by schedule_update
    versions,             \* store: <<task_id, version>> -> TaskVersion row
    tasks,                \* store: ids of the IntelligentThresholdTask documents
    calls,                \* the API handler invocations, in order of arrival
    record_status,        \* store: status of the latest AutoIntelligentThresholdTaskRecord
    detail,               \* store: the AutoIntelligentThresholdTaskRecordDetail of AutoTask
    alarm_sync_record,    \* store: whether AutoTask has an AlarmSyncRecord
    ar,                   \* process_record_detail_tasks, by call: [pc, iteration_count, latest]
    qps,                  \* RateLimiter: the quota of the one concurrency group
    loop_time,            \* asyncio.get_event_loop().time(), in ticks
    buckets,              \* RateLimiter._buckets[key]: [tokens, last_refill] or NoBucket
    callers,              \* the calls of acquire_token, in order of arrival
    grants,               \* the tokens granted: <<caller, time>> in order
    existing_triggers,    \* provider: descriptions of the triggers get_triggers returns
    version_result,       \* task_version.result: the hostname label of each entry
    operations,           \* all_operations handed to execute_operations
    op_tasks,             \* the execute_with_retry task of each operation
    sync,                 \* sync_rules: [pc, returned]
    ts_name,              \* generate_unique_key: the name argument
    ts_labels,            \* generate_unique_key: the labels dict, in insertion order
    ts_key,               \* generate_unique_key: the returned string, or NoKey
    thresholds,           \* merge_continuous_thresholds: the list of blocks given
    merged_thresholds,    \* merge_continuous_thresholds: [returned, thresholds]
    maximum_threshold_blocks, \* ThresholdRecommender.maximum_threshold_blocks
    up_results,           \* _merge_threshold_results: the results of direction up
    down_results,         \* _merge_threshold_results: the results of direction down
    merged_results,       \* _merge_threshold_results: [returned, results]
    direction,            \* calculate_threshold: the direction argument
    task_data,            \* calculate_threshold: the series fetch_data would return
    response,             \* calculate_threshold: [returned, status, result, message]
    general_args,         \* recommend_general_threshold: its arguments
    general_threshold,    \* recommend_general_threshold: [returned, status, threshold]
    accesses,             \* the uses of task_queue and running_tasks made so far
    history,              \* Zabbix: the history records the server holds
    fetch                 \* _fetch_one_slot: [pc, time_till, last_clock, all_data, calls]

schedVars == <<max_concurrent_tasks, task_queue, running_tasks, calc_tasks, started,
               requests, clock, pq_tasks, update_tasks>>
limiterVars == <<qps, loop_time, buckets, callers, grants>>
syncVars == <<existing_triggers, version_result, operations, op_tasks, sync>>
keyVars == <<ts_name, ts_labels, ts_key>>
mergerVars == <<thresholds, merged_thresholds>>
bothVars == <<up_results, down_results, merged_results>>
calcVars == <<direction, task_data, response>>
generalVars == <<general_args, general_threshold>>
lockVars == <<accesses>>
fetchVars == <<history, fetch>>
moreVars == <<generalVars, lockVars, fetchVars>>
algoVars == <<keyVars, mergerVars, maximum_threshold_blocks, bothVars, calcVars, moreVars>>
metricsVars == <<limiterVars, syncVars, algoVars>>
storeVars == <<tasks, calls, record_status, detail, alarm_sync_record, ar, metricsVars>>
vars == <<max_concurrent_tasks, task_queue, running_tasks, calc_tasks, started,
          requests, clock, pq_tasks, update_tasks, versions, storeVars>>

-----------------------------------------------------------------------------
(* Bounds of the model *)
MaxConcurrent == 2      \* max_concurrent_tasks of the scheduler under Spec
MaxSubmit == 3          \* handle_task calls per behaviour under Spec
MaxQueued == 4          \* handle_task calls per behaviour under SpecPrio
MaxFairSubmit == 3      \* handle_task calls per behaviour under SpecFair
MaxHookRuns == 2        \* handle_task calls per behaviour under SpecHook
MaxLockSubmit == 3      \* handle_task calls per behaviour under SpecLock
MaxReruns == 2          \* rerun_task invocations per behaviour under SpecVersions
MaxCalls == 1           \* API handler invocations per behaviour under SpecStore
MaxIterations == 4      \* max_iterations given to process_record_detail_tasks
MaxClock == 2           \* time.time() ranges over 0..MaxClock

TaskIds == {1, 2}

(* TaskPriority (veaiops.schema.types): only the order of the values matters *)
LOW == 1
NORMAL == 2
HIGH == 3
Priorities == {LOW, NORMAL, HIGH}

(* IntelligentThresholdTaskStatus *)
RUNNING == "Running"
SUCCESS == "Success"
FAILED == "Failed"

-----------------------------------------------------------------------------
(* TaskRequest.__lt__ *)
Lt_mut_prio(a, b) ==
    IF a.priority # b.priority THEN a.priority < b.priority
    ELSE a.created_at < b.created_at

Lt_mut_fifo(a, b) == a.created_at < b.created_at

Lt(a, b) ==
    IF a.priority # b.priority THEN a.priority > b.priority
    ELSE a.created_at < b.created_at

(* heapq on a 0-based array: position p is element p+1 of the sequence *)
RECURSIVE siftdown_loop(_, _, _, _)
siftdown_loop(heap, startpos, pos, newitem) ==
    IF pos > startpos
    THEN LET parentpos == (pos - 1) \div 2
             parent == heap[parentpos + 1]
         IN  IF Lt(newitem, parent)
             THEN siftdown_loop([heap EXCEPT ![pos + 1] = parent], startpos, parentpos, newitem)
             ELSE [heap EXCEPT ![pos + 1] = newitem]
    ELSE [heap EXCEPT ![pos + 1] = newitem]

siftdown(heap, startpos, pos) == siftdown_loop(heap, startpos, pos, heap[pos + 1])

RECURSIVE siftup_loop(_, _, _, _)
siftup_loop(heap, startpos, pos, newitem) ==
    LET endpos == Len(heap)
        leftpos == 2 * pos + 1
    IN  IF leftpos < endpos
        THEN LET rightpos == leftpos + 1
                 childpos == IF rightpos < endpos /\ ~Lt(heap[leftpos + 1], heap[rightpos + 1])
                             THEN rightpos ELSE leftpos
             IN  siftup_loop([heap EXCEPT ![pos + 1] = heap[childpos + 1]],
                             startpos, childpos, newitem)
        ELSE siftdown([heap EXCEPT ![pos + 1] = newitem], startpos, pos)

siftup(heap, pos) == siftup_loop(heap, pos, pos, heap[pos + 1])

heappush(heap, item) == siftdown(Append(heap, item), 0, Len(heap))

(* heappop: the returned item and the heap it leaves *)
heappop(heap) ==
    LET lastelt == heap[Len(heap)]
        rest == SubSeq(heap, 1, Len(heap) - 1)
    IN  IF Len(rest) > 0
        THEN [item |-> rest[1], heap |-> siftup([rest EXCEPT ![1] = lastelt], 0)]
        ELSE [item |-> lastelt, heap |-> rest]

-----------------------------------------------------------------------------
(* dict helpers *)
DictSet(d, k, v) == [x \in DOMAIN d \cup {k} |-> IF x = k THEN v ELSE d[x]]
DictDel(d, k) == [x \in DOMAIN d \ {k} |-> d[x]]
EmptyDict == [x \in {} |-> 0]

(* a calculate task that has not been made yet *)
NoOutcome == [kind |-> "none", status |-> "", result |-> "None", message |-> "", text |-> ""]

(* _process_queue: the loop under queue_lock.  s = [q, run, calc, st] *)
RECURSIVE process_queue_loop(_)
process_queue_loop(s) ==
    IF Cardinality(DOMAIN s.run) < max_concurrent_tasks /\ Len(s.q) > 0
    THEN LET popped == heappop(s.q)
             task_request == popped.item
             task_key == task_request.task_id
         IN  process_queue_loop(
                 [q    |-> popped.heap,
                  run  |-> DictSet(s.run, task_key, task_request.rid),
                  calc |-> DictSet(s.calc, task_request.rid,
                                   [state |-> "pending", outcome |-> NoOutcome]),
                  st   |-> Append(s.st, task_request.rid)])
    ELSE s

process_queue(q) ==
    process_queue_loop([q |-> q, run |-> running_tasks, calc |-> calc_tasks, st |-> started])

(* ThresholdRecommender.handle_task: construct the request, push, process the queue *)
handle_task(task_id, task_version, task_priority, now) ==
    LET rid == Len(requests) + 1   \* the identity of the new TaskRequest object
        task_request == [rid |-> rid, task_id |-> task_id, task_version |-> task_version,
                         priority |-> task_priority, created_at |-> now]
        s == process_queue(heappush(task_queue, task_request))
    IN  /\ requests' = Append(requests, task_request)
        /\ clock' = now
        /\ task_queue' = s.q
        /\ running_tasks' = s.run
        /\ calc_tasks' = s.calc
        /\ started' = s.st

(* the version a caller submits for a task: one more than it submitted before *)
NextVersionOf(tid) == 1 + Cardinality({i \in DOMAIN requests : requests[i].task_id = tid})

(* a caller of the agent endpoint, for a task of tids with a priority of prios, at
   most n calls; the clock has advanced by one of dts since the last call *)
Submit(tids, prios, dts, n) ==
    /\ Len(requests) < n
    /\ \E tid \in tids, prio \in prios, dt \in dts :
          /\ clock + dt <= MaxClock
          /\ handle_task(tid, NextVersionOf(tid), prio, clock + dt)
    /\ UNCHANGED <<max_concurrent_tasks, pq_tasks, update_tasks, versions, storeVars>>

-----------------------------------------------------------------------------
(* What a run of _execute_task can end with.  calculate_threshold returns a
   dict {status, result, message}; result is abstracted to "results" (a non-empty
   list), "[]" (the empty list) or "None". *)
Ret(status, result, message) ==
    [kind |-> "returned", status |-> status, result |-> result, message |-> message, text |-> ""]

RetSuccess == Ret("Success", "results", "Task Success!")
RetNoData == Ret("NoData", "[]", "No data available for threshold calculation")
RetTimeout == Ret("Failed", "[]", "Data fetch timeout after 3600 seconds")
RetFetchCancelled == Ret("Failed", "[]", "Data fetch was cancelled")
RetNoSeries == Ret("Failed", "results", "Input Data Validation Error")
Cancelled == [kind |-> "cancelled", status |-> "", result |-> "None", message |-> "", text |-> ""]
Raised == [kind |-> "exception", status |-> "", result |-> "None", message |-> "", text |-> "Test error"]

calculate_threshold_returns == {RetSuccess, RetNoData, RetTimeout, RetFetchCancelled, RetNoSeries}
Outcomes == calculate_threshold_returns \cup {Cancelled, Raised}

(* a message: a format, the task id it interpolates (0: none) and the text it carries *)
Msg(fmt, id, arg) == [fmt |-> fmt, id |-> id, arg |-> arg]
NoMsg == Msg("None", 0, "")

(* the run of a started request terminates; asyncio schedules its done callback *)
Terminate(outs) ==
    /\ \E rid \in DOMAIN calc_tasks, o \in outs :
          /\ calc_tasks[rid].state = "pending"
          /\ calc_tasks' = [calc_tasks EXCEPT ![rid] = [state |-> "finished", outcome |-> o]]
    /\ UNCHANGED <<max_concurrent_tasks, task_queue, running_tasks, started, requests, clock,
                   pq_tasks, update_tasks, versions, storeVars>>

(* tenacity: stop=stop_after_attempt(3) *)
stop_after_attempt_mut == 3 + 1

stop_after_attempt == 3

(* ThresholdRecommender.send_task_response_callback: the update it schedules *)
schedule_update(rid, task_id, task_version, status, result, message) ==
    [rid |-> rid, no |-> 1 + Cardinality({u \in update_tasks : u.rid = rid}),
     task_id |-> task_id, task_version |-> task_version, status |-> status,
     result |-> result, message |-> message, attempt_number |-> 0, state |-> "retrying"]

send_task_response_callback_mut_nodata(o, rid, task_id, task_version) ==
    IF o.kind = "cancelled"
    THEN schedule_update(rid, task_id, task_version, FAILED, "None",
                         Msg("Task {id} was cancelled", task_id, ""))
    ELSE IF o.kind = "exception"
    THEN schedule_update(rid, task_id, task_version, FAILED, "None",
                         Msg("Task {id} failed with exception: {exception}", task_id, o.text))
    ELSE IF o.status \in {"Success", "NoData"}
    THEN schedule_update(rid, task_id, task_version, SUCCESS, o.result, NoMsg)
    ELSE schedule_update(rid, task_id, task_version, FAILED, "None", Msg(o.message, 0, ""))

send_task_response_callback(o, rid, task_id, task_version) ==
    IF o.kind = "cancelled"
    THEN schedule_update(rid, task_id, task_version, FAILED, "None",
                         Msg("Task {id} was cancelled", task_id, ""))
    ELSE IF o.kind = "exception"
    THEN schedule_update(rid, task_id, task_version, FAILED, "None",
                         Msg("Task {id} failed with exception: {exception}", task_id, o.text))
    ELSE IF o.status = "Success"
    THEN schedule_update(rid, task_id, task_version, SUCCESS, o.result, NoMsg)
    ELSE IF o.status = "NoData"
    THEN schedule_update(rid, task_id, task_version, FAILED, o.result, Msg(o.message, 0, ""))
    ELSE schedule_update(rid, task_id, task_version, FAILED, "None", Msg(o.message, 0, ""))

(* ThresholdRecommender._task_completion_callback, the done callback of a run *)
task_completion_callback_mut_noadmit(rid) ==
    LET task_request == requests[rid]
        task_key == task_request.task_id
    IN  /\ running_tasks' = IF task_key \in DOMAIN running_tasks
                            THEN DictDel(running_tasks, task_key) ELSE running_tasks
        /\ update_tasks' = update_tasks \cup
                               {send_task_response_callback(calc_tasks[rid].outcome, rid,
                                    task_request.task_id, task_request.task_version)}
        /\ pq_tasks' = pq_tasks
        /\ calc_tasks' = [calc_tasks EXCEPT ![rid].state = "called"]

task_completion_callback(rid) ==
    LET task_request == requests[rid]
        task_key == task_request.task_id
    IN  /\ running_tasks' = IF task_key \in DOMAIN running_tasks
                            THEN DictDel(running_tasks, task_key) ELSE running_tasks
        /\ update_tasks' = update_tasks \cup
                               {send_task_response_callback(calc_tasks[rid].outcome, rid,
                                    task_request.task_id, task_request.task_version)}
        /\ pq_tasks' = pq_tasks + 1
        /\ calc_tasks' = [calc_tasks EXCEPT ![rid].state = "called"]

Callback ==
    /\ \E rid \in DOMAIN calc_tasks :
          /\ calc_tasks[rid].state = "finished"
          /\ task_completion_callback(rid)
    /\ UNCHANGED <<max_concurrent_tasks, task_queue, started, requests, clock, versions, storeVars>>

(* a _process_queue task made by the completion callback runs *)
ProcessQueueTask ==
    /\ pq_tasks > 0
    /\ LET s == process_queue(task_queue)
       IN  /\ task_queue' = s.q
           /\ running_tasks' = s.run
           /\ calc_tasks' = s.calc
           /\ started' = s.st
    /\ pq_tasks' = pq_tasks - 1
    /\ UNCHANGED <<max_concurrent_tasks, requests, clock, update_tasks, versions, storeVars>>

(* update_task_result (handler/services/intelligent_threshold/task.py): the upsert of
   the state of one TaskVersion row, last writer wins *)
update_task_result_mut_upsert(store, task_id, status, task_version, result, error_message) ==
    [x \in DOMAIN store \cup {<<task_id, task_version>>} |->
        IF x = <<task_id, task_version>>
        THEN [status |-> status, result |-> result, error_message |-> error_message]
        ELSE store[x]]

update_task_result(store, task_id, status, task_version, result, error_message) ==
    IF <<task_id, task_version>> \in DOMAIN store
    THEN [store EXCEPT ![<<task_id, task_version>>] =
              [status |-> status, result |-> result, error_message |-> error_message]]
    ELSE store

(* one attempt of ThresholdRecommender._update_task_result under @retry: the write
   succeeds, or raises and tenacity stops at stop_after_attempt (retry_error_callback
   then returns instead of raising) *)
UpdateAttempt ==
    /\ \E u \in update_tasks, ok \in BOOLEAN :
          LET n == u.attempt_number + 1
          IN  /\ u.state = "retrying"
              /\ IF ok
                 THEN /\ versions' = update_task_result(versions, u.task_id, u.status,
                                                        u.task_version, u.result, u.message)
                      /\ update_tasks' = (update_tasks \ {u}) \cup
                             {[u EXCEPT !.attempt_number = n, !.state = "returned"]}
                 ELSE /\ versions' = versions
                      /\ update_tasks' = (update_tasks \ {u}) \cup
                             {[u EXCEPT !.attempt_number = n,
                                        !.state = IF n >= stop_after_attempt
                                                  THEN "gave_up" ELSE "retrying"]}
    /\ UNCHANGED <<max_concurrent_tasks, task_queue, running_tasks, calc_tasks, started,
                   requests, clock, pq_tasks, storeVars>>

(* ThresholdRecommender.get_queue_status *)
get_queue_status ==
    [queue_size |-> Len(task_queue),
     running_tasks |-> Cardinality(DOMAIN running_tasks),
     max_concurrent_tasks |-> max_concurrent_tasks,
     running_task_ids |-> DOMAIN running_tasks]

-----------------------------------------------------------------------------
(* The store the scheduler writes to holds a Running row per task and version *)
RunningRow == [status |-> RUNNING, result |-> "None", error_message |-> NoMsg]

(* no auto-refresh batch and no API call: only the agent endpoint is in use *)
NoDetail == [status |-> "none", intelligent_threshold_task_status |-> "none",
             alarm_inject_status |-> "none", version |-> 0]

(* the rate limiter and the rule synchronizer before any call *)
NoBucket == [tokens |-> -1, last_refill |-> -1]

InitLimiter(quota) ==
    /\ qps = quota
    /\ loop_time = 0
    /\ buckets = NoBucket
    /\ callers = <<>>
    /\ grants = <<>>

InitNoSync ==
    /\ existing_triggers = {}
    /\ version_result = <<>>
    /\ operations = <<>>
    /\ op_tasks = <<>>
    /\ sync = [pc |-> "idle", returned |-> [total |-> 0, created |-> 0, updated |-> 0,
                                          deleted |-> 0, failed |-> {}]]

NoKey == <<>>

InitNoKey ==
    /\ ts_name = <<>>
    /\ ts_labels = <<>>
    /\ ts_key = NoKey

NotMerged == [returned |-> FALSE, thresholds |-> <<>>]

(* DEFAULT_MAXIMUM_THRESHOLD_BLOCKS, the default of maximum_threshold_blocks *)
DEFAULT_MAXIMUM_THRESHOLD_BLOCKS == 8

InitNoMerger ==
    /\ thresholds = <<>>
    /\ merged_thresholds = NotMerged

InitNoBoth ==
    /\ up_results = <<>>
    /\ down_results = <<>>
    /\ merged_results = [returned |-> FALSE, results |-> <<>>]

NoResponse == [returned |-> FALSE, status |-> "", result |-> <<>>, message |-> ""]

InitNoCalc ==
    /\ direction = "up"
    /\ task_data = <<>>
    /\ response = NoResponse

NoArgs == <<>>
NotReturned == [returned |-> FALSE, status |-> FALSE, threshold |-> <<0, 1>>]

InitNoGeneral ==
    /\ general_args = NoArgs
    /\ general_threshold = NotReturned

InitNoLock == accesses = {}

NoFetch == [pc |-> "idle", time_till |-> <<>>, last_clock |-> 0, all_data |-> {}, calls |-> 0]

InitNoFetch ==
    /\ history = {}
    /\ fetch = NoFetch

InitNoMore == InitNoGeneral /\ InitNoLock /\ InitNoFetch

InitNoAlgo ==
    /\ InitNoKey /\ InitNoMerger /\ InitNoBoth /\ InitNoCalc /\ InitNoMore
    /\ maximum_threshold_blocks = DEFAULT_MAXIMUM_THRESHOLD_BLOCKS

InitNoMetrics == InitLimiter(1) /\ InitNoSync /\ InitNoAlgo

(* a driver that is not inside process_record_detail_tasks; sync_calls counts the
   calls of sync_alarm_rules_service the driver has made *)
IdleDriver == [pc |-> "idle", iteration_count |-> 0, latest |-> 0, sync_calls |-> 0]

InitNoStore ==
    /\ tasks = {}
    /\ calls = <<>>
    /\ record_status = "none"
    /\ detail = NoDetail
    /\ alarm_sync_record = FALSE
    /\ ar = [d \in {1} |-> IdleDriver]
    /\ InitNoMetrics

InitSched ==
    /\ task_queue = <<>>
    /\ running_tasks = EmptyDict
    /\ calc_tasks = EmptyDict
    /\ started = <<>>
    /\ requests = <<>>
    /\ clock = 0
    /\ pq_tasks = 0
    /\ update_tasks = {}

Init ==
    /\ InitSched /\ InitNoStore
    /\ max_concurrent_tasks = MaxConcurrent
    /\ versions = [k \in TaskIds \X (1..MaxSubmit) |-> RunningRow]

(* Spec: the scheduler's queue under submissions and completions *)
Next ==
    \/ Submit(TaskIds, Priorities, {0, 1}, MaxSubmit)
    \/ Terminate({RetSuccess})
    \/ Callback
    \/ ProcessQueueTask

Spec == Init /\ [][Next]_vars

(* SpecPrio: one slot, so that submissions queue up behind the running request *)
InitPrio ==
    /\ InitSched /\ InitNoStore
    /\ max_concurrent_tasks = 1
    /\ versions = [k \in TaskIds \X (1..MaxQueued) |-> RunningRow]

NextPrio ==
    \/ Submit({1}, Priorities, {0, 1}, MaxQueued)
    \/ Terminate({RetSuccess})
    \/ Callback
    \/ ProcessQueueTask

SpecPrio == InitPrio /\ [][NextPrio]_vars

(* SpecFair: every started run terminates, and the event loop runs every done
   callback and every task it was given; submissions stop at any time *)
InitFair ==
    /\ InitSched /\ InitNoStore
    /\ max_concurrent_tasks \in {1, MaxConcurrent}
    /\ versions = [k \in TaskIds \X (1..MaxFairSubmit) |-> RunningRow]

FairOutcomes == {RetSuccess, Raised}

NextFair ==
    \/ Submit(TaskIds, {NORMAL}, {0}, MaxFairSubmit)
    \/ Terminate(FairOutcomes)
    \/ Callback
    \/ ProcessQueueTask

SpecFair ==
    /\ InitFair /\ [][NextFair]_vars
    /\ WF_vars(Terminate(FairOutcomes)) /\ WF_vars(Callback) /\ WF_vars(ProcessQueueTask)

(* SpecHook: the completion hook and the retried persistence of its update, for
   every way a run can end *)
InitHook ==
    /\ InitSched /\ InitNoStore
    /\ max_concurrent_tasks = 1
    /\ versions = [k \in {1} \X (1..MaxHookRuns) |-> RunningRow]

NextHook ==
    \/ Submit({1}, {NORMAL}, {0}, MaxHookRuns)
    \/ Terminate(Outcomes)
    \/ Callback
    \/ ProcessQueueTask
    \/ UpdateAttempt

SpecHook == InitHook /\ [][NextHook]_vars

(* SpecScenario: the scheduler ordering scenario of the test plan: one slot and the
   four submissions (priority, created_at) in this order, runs ending in between
   at any time *)
Script == << [priority |-> LOW, t |-> 0], [priority |-> HIGH, t |-> 1],
             [priority |-> NORMAL, t |-> 2], [priority |-> HIGH, t |-> 3] >>

SubmitScript ==
    /\ Len(requests) < Len(Script)
    /\ \E tid \in TaskIds :
          LET e == Script[Len(requests) + 1]
          IN  handle_task(tid, NextVersionOf(tid), e.priority, e.t)
    /\ UNCHANGED <<max_concurrent_tasks, pq_tasks, update_tasks, versions, storeVars>>

InitScenario ==
    /\ InitSched /\ InitNoStore
    /\ max_concurrent_tasks = 1
    /\ versions = [k \in TaskIds \X (1..Len(Script)) |-> RunningRow]

NextScenario ==
    \/ SubmitScript
    \/ Terminate({RetSuccess, Raised})
    \/ Callback
    \/ ProcessQueueTask

SpecScenario == InitScenario /\ [][NextScenario]_vars

-----------------------------------------------------------------------------
(* Part 2: the store, the task API and the auto-refresh driver.  Every await of a
   handler on the store or on the agent is a point where other handlers run. *)

AutoTask == 1           \* the task with auto_update=true
NewTask == 2            \* the id create_task gives the task it makes

SuccessRow == [status |-> SUCCESS, result |-> "results", error_message |-> NoMsg]
FailedRow == [status |-> FAILED, result |-> "None", error_message |-> NoMsg]

(* IntelligentThresholdTaskVersion.find(task_id).sort(-version).first_or_none(); 0: none *)
latest_version(store, task_id) ==
    LET vs == {k[2] : k \in {x \in DOMAIN store : x[1] = task_id}}
    IN  IF vs = {} THEN 0 ELSE CHOOSE v \in vs : \A w \in vs : w <= v

(* the unique index (task_id, version) of IntelligentThresholdTaskVersion: insert()
   raises DuplicateKeyError when the key is stored already *)
DuplicateKey_mut_noindex(store, key) == FALSE

DuplicateKey(store, key) == key \in DOMAIN store

(* call_threshold_agent: the POST reaches the agent, which runs handle_task, and the
   reply is a success ("ok") or is an error or never comes ("reply_lost"); or the
   POST does not reach the agent ("refused") *)
AgentReplies == {"ok", "refused", "reply_lost"}

call_threshold_agent(task_id, task_version, task_priority, reply) ==
    IF reply = "refused"
    THEN UNCHANGED <<requests, clock, task_queue, running_tasks, calc_tasks, started>>
    ELSE handle_task(task_id, task_version, task_priority, clock)

Call(op, pc, task_id, latest, version) ==
    [op |-> op, pc |-> pc, task_id |-> task_id, latest |-> latest, version |-> version]

(* create_task: insert the task and its version 1, call the agent *)
create_task ==
    /\ Len(calls) < MaxCalls
    /\ NewTask \notin tasks
    /\ ~DuplicateKey(versions, <<NewTask, 1>>)
    /\ \E reply \in AgentReplies :
          /\ call_threshold_agent(NewTask, 1, HIGH, reply)
          /\ calls' = Append(calls, Call("create_task",
                                 IF reply = "ok" THEN "done" ELSE "rollback", NewTask, 0, 1))
    /\ tasks' = tasks \cup {NewTask}
    /\ versions' = DictSet(versions, <<NewTask, 1>>, RunningRow)
    /\ UNCHANGED <<max_concurrent_tasks, pq_tasks, update_tasks, record_status, detail,
                   alarm_sync_record, metricsVars, ar>>

(* create_task, except branch: delete the task and the version *)
create_task_rollback ==
    /\ \E i \in DOMAIN calls :
          /\ calls[i].op = "create_task" /\ calls[i].pc = "rollback"
          /\ tasks' = tasks \ {calls[i].task_id}
          /\ versions' = DictDel(versions, <<calls[i].task_id, calls[i].version>>)
          /\ calls' = [calls EXCEPT ![i].pc = "error"]
    /\ UNCHANGED <<schedVars, record_status, detail, alarm_sync_record, metricsVars, ar>>

(* rerun_task up to the read of the latest version *)
rerun_task_read(n) ==
    /\ Len(calls) < n
    /\ \E task_id \in tasks :
          /\ latest_version(versions, task_id) > 0
          /\ calls' = Append(calls, Call("rerun_task", "insert", task_id,
                                         latest_version(versions, task_id),
                                         latest_version(versions, task_id) + 1))
    /\ UNCHANGED <<schedVars, versions, tasks, record_status, detail, alarm_sync_record, metricsVars, ar>>

(* rerun_task: insert the new version (the unique index refuses a second
   (task_id, version)), save the task, call the agent *)
rerun_task_insert ==
    /\ \E i \in DOMAIN calls :
          LET c == calls[i]
          IN  /\ c.op = "rerun_task" /\ c.pc = "insert"
              /\ IF DuplicateKey(versions, <<c.task_id, c.version>>)
                 THEN /\ calls' = [calls EXCEPT ![i].pc = "error"]
                      /\ UNCHANGED <<versions, requests, clock, task_queue, running_tasks,
                                     calc_tasks, started>>
                 ELSE /\ versions' = DictSet(versions, <<c.task_id, c.version>>, RunningRow)
                      /\ \E reply \in AgentReplies :
                            /\ call_threshold_agent(c.task_id, c.version, HIGH, reply)
                            /\ calls' = [calls EXCEPT ![i].pc =
                                             IF reply = "ok" THEN "done" ELSE "except"]
    /\ UNCHANGED <<max_concurrent_tasks, pq_tasks, update_tasks, tasks, record_status,
                   detail, alarm_sync_record, metricsVars, ar>>

(* rerun_task, except branch: new_version_doc.status = FAILED; new_version_doc.save() *)
rerun_task_except ==
    /\ \E i \in DOMAIN calls :
          /\ calls[i].op = "rerun_task" /\ calls[i].pc = "except"
          /\ versions' = DictSet(versions, <<calls[i].task_id, calls[i].version>>, FailedRow)
          /\ calls' = [calls EXCEPT ![i].pc = "error"]
    /\ UNCHANGED <<schedVars, tasks, record_status, detail, alarm_sync_record, metricsVars, ar>>

(* update_task_result_endpoint: any status the payload schema admits *)
UpdatePayloads ==
    { [status |-> SUCCESS, results |-> "results"],
      [status |-> FAILED, results |-> "None"],
      [status |-> RUNNING, results |-> "None"] }

update_task_result_endpoint ==
    /\ Len(calls) < MaxCalls
    /\ \E k \in DOMAIN versions, body \in UpdatePayloads :
          /\ k[1] \in tasks
          /\ versions' = update_task_result(versions, k[1], body.status, k[2],
                                            body.results, NoMsg)
          /\ calls' = Append(calls, Call("update_task_result_endpoint", "done", k[1], 0, k[2]))
    /\ UNCHANGED <<schedVars, tasks, record_status, detail, alarm_sync_record, metricsVars, ar>>

(* the state initialize_auto_refresh_task leaves for one auto_update task whose
   version 1 succeeded: a Processing record and one Pending detail *)
PendingDetail == [status |-> "Pending", intelligent_threshold_task_status |-> "Pending",
                  alarm_inject_status |-> "Initialized", version |-> 0]

(* an invocation of initialize_auto_refresh_task: whether task_record.id is set and
   how many details detail_records holds *)
InitCall(pc, record_id, detail_records) ==
    [op |-> "initialize_auto_refresh_task", pc |-> pc, record_id |-> record_id,
     detail_records |-> detail_records]

Initializing == {i \in DOMAIN calls : calls[i].op = "initialize_auto_refresh_task"}

(* initialize_auto_refresh_task, steps 1 and 2: query the auto_update tasks and insert
   the record; with no such task the record is inserted Completed, outside the try *)
initialize_auto_refresh_task ==
    /\ Initializing = {}
    /\ record_status = "none"
    /\ \E inserted \in BOOLEAN :
          IF AutoTask \notin tasks
          THEN /\ record_status' = IF inserted THEN "Completed" ELSE record_status
               /\ calls' = Append(calls, InitCall(IF inserted THEN "done" ELSE "error",
                                                  inserted, 0))
          ELSE /\ record_status' = IF inserted THEN "Pending" ELSE record_status
               /\ calls' = Append(calls, InitCall(IF inserted THEN "details" ELSE "rollback",
                                                  inserted, 0))
    /\ UNCHANGED <<schedVars, versions, tasks, detail, alarm_sync_record, metricsVars, ar>>

(* step 3: insert the detail of the auto_update task *)
initialize_auto_refresh_task_details ==
    /\ \E i \in Initializing, inserted \in BOOLEAN :
          /\ calls[i].pc = "details"
          /\ detail' = IF inserted THEN PendingDetail ELSE detail
          /\ calls' = [calls EXCEPT ![i].pc = IF inserted THEN "flip" ELSE "rollback",
                                    ![i].detail_records = IF inserted THEN 1 ELSE 0]
    /\ UNCHANGED <<schedVars, versions, tasks, record_status, alarm_sync_record, metricsVars, ar>>

(* step 4: task_record.status = PROCESSING; save() *)
initialize_auto_refresh_task_flip ==
    /\ \E i \in Initializing, saved \in BOOLEAN :
          /\ calls[i].pc = "flip"
          /\ record_status' = IF saved THEN "Processing" ELSE record_status
          /\ calls' = [calls EXCEPT ![i].pc = IF saved THEN "done" ELSE "rollback"]
    /\ UNCHANGED <<schedVars, versions, tasks, detail, alarm_sync_record, metricsVars, ar>>

(* _rollback_auto_refresh_task_creation: delete the details of detail_records, then
   the record if its id is set; the first delete that raises ends the rollback, the
   exception is logged and dropped; initialize then raises *)
rollback_auto_refresh_task_creation ==
    /\ \E i \in Initializing, detail_deleted \in BOOLEAN, record_deleted \in BOOLEAN :
          LET details_gone == calls[i].detail_records = 0 \/ detail_deleted
          IN  /\ calls[i].pc = "rollback"
              /\ detail' = IF calls[i].detail_records > 0 /\ detail_deleted
                            THEN NoDetail ELSE detail
              /\ record_status' = IF details_gone /\ calls[i].record_id /\ record_deleted
                                   THEN "none" ELSE record_status
              /\ calls' = [calls EXCEPT ![i].pc = "error"]
    /\ UNCHANGED <<schedVars, versions, tasks, alarm_sync_record, metricsVars, ar>>

(* scheduled_process_record_detail_tasks: the latest record is Processing, so
   process_record_detail_tasks starts with iteration_count = 0 *)
scheduled_process_record_detail_tasks ==
    \E d \in DOMAIN ar :
    /\ ar[d].pc \in {"idle", "raised"}
    /\ record_status = "Processing"
    /\ ar' = [ar EXCEPT ![d] = [pc |-> "while", iteration_count |-> 0, latest |-> 0,
                                sync_calls |-> ar[d].sync_calls]]
    /\ UNCHANGED <<schedVars, versions, tasks, calls, record_status, detail, alarm_sync_record, metricsVars>>

(* process_record_detail_tasks: while iteration_count < max_iterations; the loop
   head is reached from the sleep or from the continue of the except around Phase C *)
process_record_detail_tasks_while ==
    \E d \in DOMAIN ar :
    /\ ar[d].pc \in {"while", "C_raised"}
    /\ ar' = IF ar[d].iteration_count < MaxIterations
             THEN [ar EXCEPT ![d].pc = "A", ![d].iteration_count = @ + 1]
             ELSE [ar EXCEPT ![d].pc = "idle"]
    /\ UNCHANGED <<schedVars, versions, tasks, calls, record_status, detail, alarm_sync_record, metricsVars>>

(* process_detail_task_status for the one detail: the query of the unfinished
   details and the branch taken for the detail it returned; the Pending branch goes
   on with its reads, the other branches end here.  The query is outside every try:
   when it raises, the exception leaves process_record_detail_tasks ("raised") *)
process_detail_task_status ==
    \E d \in DOMAIN ar :
    /\ ar[d].pc = "A"
    /\ \E query_raised \in BOOLEAN :
       IF query_raised THEN UNCHANGED detail /\ ar' = [ar EXCEPT ![d].pc = "raised"] ELSE
       LET its == detail.intelligent_threshold_task_status
           key == <<AutoTask, detail.version>>
       IN  IF detail.status = "Completed"
           THEN UNCHANGED detail /\ ar' = [ar EXCEPT ![d].pc = "B"]
           ELSE IF its = "Pending"
           THEN UNCHANGED detail /\ ar' = [ar EXCEPT ![d].pc = "A_read"]
           ELSE IF its = "Processing"
           THEN /\ detail' =
                      IF key \notin DOMAIN versions
                      THEN [detail EXCEPT !.status = "Completed",
                                          !.intelligent_threshold_task_status = "Failed"]
                      ELSE IF versions[key].status = SUCCESS
                      THEN [detail EXCEPT !.intelligent_threshold_task_status = "Success"]
                      ELSE IF versions[key].status = FAILED
                      THEN [detail EXCEPT !.intelligent_threshold_task_status = "Failed"]
                      ELSE detail
                /\ ar' = [ar EXCEPT ![d].pc = "B"]
           ELSE IF its = "Success"
           THEN /\ detail' =
                      IF ~alarm_sync_record
                      THEN [detail EXCEPT !.status = "Completed"]
                      ELSE IF detail.alarm_inject_status = "Initialized"
                      THEN [detail EXCEPT !.alarm_inject_status = "Pending"]
                      ELSE detail
                /\ ar' = [ar EXCEPT ![d].pc = "B"]
           ELSE UNCHANGED detail /\ ar' = [ar EXCEPT ![d].pc = "B"]
    /\ UNCHANGED <<schedVars, versions, tasks, calls, record_status, alarm_sync_record, metricsVars>>

(* process_detail_task_status, Pending branch: the reads of the task and of its
   latest version, each awaited after the query returned the detail as Pending *)
process_detail_task_status_read ==
    \E d \in DOMAIN ar :
    /\ ar[d].pc = "A_read"
    /\ IF AutoTask \notin tasks \/ latest_version(versions, AutoTask) = 0
       THEN /\ detail' = [detail EXCEPT !.status = "Completed"]
            /\ ar' = [ar EXCEPT ![d].pc = "B"]
       ELSE /\ UNCHANGED detail
            /\ ar' = [ar EXCEPT ![d].pc = "A_insert",
                                ![d].latest = latest_version(versions, AutoTask)]
    /\ UNCHANGED <<schedVars, versions, tasks, calls, record_status, alarm_sync_record, metricsVars>>

(* process_detail_task_status, Pending branch: the detail as it is saved after the
   insert of the new version *)
processing_detail_mut_pending(task_detail, new_version_number) ==
    [task_detail EXCEPT !.version = new_version_number, !.status = "Processing"]

processing_detail(task_detail, new_version_number) ==
    [task_detail EXCEPT !.version = new_version_number,
                        !.status = "Processing",
                        !.intelligent_threshold_task_status = "Processing"]

(* process_detail_task_status, Pending branch after the read: insert the new
   version, save the detail as Processing, call the agent with priority LOW; any
   exception marks the detail Completed *)
process_detail_task_status_insert ==
    \E d \in DOMAIN ar :
    /\ ar[d].pc = "A_insert"
    /\ LET new_version_number == ar[d].latest + 1
           processing == processing_detail(detail, new_version_number)
       IN  IF DuplicateKey(versions, <<AutoTask, new_version_number>>)
           THEN /\ detail' = [detail EXCEPT !.status = "Completed"]
                /\ UNCHANGED <<versions, requests, clock, task_queue, running_tasks,
                               calc_tasks, started>>
           ELSE /\ versions' = DictSet(versions, <<AutoTask, new_version_number>>, RunningRow)
                /\ \E reply \in AgentReplies :
                      /\ call_threshold_agent(AutoTask, new_version_number, LOW, reply)
                      /\ detail' = IF reply = "ok" THEN processing
                                   ELSE [processing EXCEPT !.status = "Completed"]
    /\ ar' = [ar EXCEPT ![d].pc = "B"]
    /\ UNCHANGED <<max_concurrent_tasks, pq_tasks, update_tasks, tasks, calls, record_status,
                   alarm_sync_record, metricsVars>>

(* process_detail_alarm_inject_status for the one detail: the query and the branch
   taken for the detail it returned; the Pending branch goes on with its reads, the
   other branches end here.  The query is outside every try, as in Phase A *)
process_detail_alarm_inject_status ==
    \E d \in DOMAIN ar :
    /\ ar[d].pc = "B"
    /\ \E query_raised \in BOOLEAN :
       IF query_raised THEN UNCHANGED detail /\ ar' = [ar EXCEPT ![d].pc = "raised"] ELSE
       LET ais == detail.alarm_inject_status
       IN  IF detail.status = "Completed" \/ ais = "Initialized"
           THEN UNCHANGED detail /\ ar' = [ar EXCEPT ![d].pc = "C"]
           ELSE IF ais = "Pending"
           THEN UNCHANGED detail /\ ar' = [ar EXCEPT ![d].pc = "B_sync"]
           ELSE IF ais \in {"Success", "Failed"}
           THEN /\ detail' = [detail EXCEPT !.status = "Completed"]
                /\ ar' = [ar EXCEPT ![d].pc = "C"]
           ELSE UNCHANGED detail /\ ar' = [ar EXCEPT ![d].pc = "C"]
    /\ UNCHANGED <<schedVars, versions, tasks, calls, record_status, alarm_sync_record, metricsVars>>

(* process_detail_alarm_inject_status, Pending branch: the reads of the task, of the
   version and of the last AlarmSyncRecord, then sync_alarm_rules_service, which
   succeeds or raises.  Without an AlarmSyncRecord the payload cannot be built and
   the service is not called *)
process_detail_alarm_inject_status_sync ==
    \E d \in DOMAIN ar :
    /\ ar[d].pc = "B_sync"
    /\ LET key == <<AutoTask, detail.version>>
       IN  IF \/ AutoTask \notin tasks
              \/ key \notin DOMAIN versions
              \/ versions[key].result \in {"None", "[]"}
              \/ ~alarm_sync_record
           THEN /\ detail' = [detail EXCEPT !.alarm_inject_status = "Failed"]
                /\ ar' = [ar EXCEPT ![d].pc = "C"]
           ELSE /\ \E synced \in BOOLEAN :
                      detail' = [detail EXCEPT !.alarm_inject_status =
                                     IF synced THEN "Success" ELSE "Failed"]
                /\ ar' = [ar EXCEPT ![d].pc = "C", ![d].sync_calls = @ + 1]
    /\ UNCHANGED <<schedVars, versions, tasks, calls, record_status, alarm_sync_record, metricsVars>>

(* check_and_update_overall_record_status: the status the record gets *)
new_record_status_mut_never(processing_task_count) == "Processing"

new_record_status(processing_task_count) ==
    IF processing_task_count = 0 THEN "Completed" ELSE "Processing"

(* check_and_update_overall_record_status, and the end of the loop body: break when
   no detail is Processing, else sleep and go round; when it raises, the except
   around it continues with the next iteration ("C_raised") *)
check_and_update_overall_record_status ==
    \E d \in DOMAIN ar :
    /\ ar[d].pc = "C"
    /\ \E raised \in BOOLEAN :
       LET processing_task_count == IF detail.status = "Processing" THEN 1 ELSE 0
           status == new_record_status(processing_task_count)
       IN  IF raised
           THEN UNCHANGED record_status /\ ar' = [ar EXCEPT ![d].pc = "C_raised"]
           ELSE /\ record_status' = status
                /\ ar' = [ar EXCEPT ![d].pc = IF status = "Completed" THEN "idle" ELSE "while"]
    /\ UNCHANGED <<schedVars, versions, tasks, calls, detail, alarm_sync_record, metricsVars>>

(* the state initialize_auto_refresh_task leaves for one auto_update task whose
   version 1 succeeded: a Processing record and one Pending detail *)
InitBatch ==
    /\ InitSched
    /\ tasks = {AutoTask}
    /\ versions = [k \in {<<AutoTask, 1>>} |-> SuccessRow]
    /\ calls = <<>>
    /\ record_status = "Processing"
    /\ detail = PendingDetail
    /\ alarm_sync_record \in BOOLEAN
    /\ ar = [d \in {1} |-> IdleDriver]
    /\ InitNoMetrics

AutoRefresh ==
    \/ scheduled_process_record_detail_tasks
    \/ process_record_detail_tasks_while
    \/ process_detail_task_status
    \/ process_detail_task_status_read
    \/ process_detail_task_status_insert
    \/ process_detail_alarm_inject_status
    \/ process_detail_alarm_inject_status_sync
    \/ check_and_update_overall_record_status

RefreshOutcomes == {RetSuccess, Raised}

(* SpecRefresh: the auto-refresh batch and the agent it calls; every handler, run,
   callback and task that can take a step eventually takes it *)
InitRefresh == InitBatch /\ max_concurrent_tasks = 1

NextRefresh ==
    \/ scheduled_process_record_detail_tasks
    \/ process_record_detail_tasks_while
    \/ process_detail_task_status
    \/ process_detail_task_status_read
    \/ process_detail_task_status_insert
    \/ process_detail_alarm_inject_status
    \/ process_detail_alarm_inject_status_sync
    \/ check_and_update_overall_record_status
    \/ Terminate(RefreshOutcomes)
    \/ Callback
    \/ ProcessQueueTask
    \/ UpdateAttempt

SpecRefresh ==
    /\ InitRefresh /\ [][NextRefresh]_vars
    /\ WF_vars(AutoRefresh) /\ WF_vars(Terminate(RefreshOutcomes))
    /\ WF_vars(Callback) /\ WF_vars(ProcessQueueTask) /\ WF_vars(UpdateAttempt)

(* SpecStore: the task API, the update-result endpoint, the auto-refresh batch and
   the agent, interleaved *)
InitStore == InitBatch /\ max_concurrent_tasks = MaxConcurrent

NextStore ==
    \/ create_task
    \/ create_task_rollback
    \/ rerun_task_read(MaxCalls)
    \/ rerun_task_insert
    \/ rerun_task_except
    \/ update_task_result_endpoint
    \/ scheduled_process_record_detail_tasks
    \/ process_record_detail_tasks_while
    \/ process_detail_task_status
    \/ process_detail_task_status_read
    \/ process_detail_task_status_insert
    \/ process_detail_alarm_inject_status
    \/ process_detail_alarm_inject_status_sync
    \/ check_and_update_overall_record_status
    \/ Terminate({RetSuccess})
    \/ Callback
    \/ ProcessQueueTask
    \/ UpdateAttempt

SpecStore == InitStore /\ [][NextStore]_vars

(* SpecCreate: create_task calls against the agent, whose run of a request it took
   ends in any way and is persisted whether or not the handler saw the reply *)
InitCreate ==
    /\ InitSched /\ InitNoStore
    /\ max_concurrent_tasks = MaxConcurrent
    /\ versions = EmptyDict

NextCreate ==
    \/ create_task
    \/ create_task_rollback
    \/ Terminate(Outcomes)
    \/ Callback
    \/ ProcessQueueTask
    \/ UpdateAttempt

SpecCreate == InitCreate /\ [][NextCreate]_vars

(* SpecVersions: concurrent rerun_task calls and the auto-refresh batch creating
   versions of the one task; the runs they start stay in progress, so that no
   detail gets as far as the rule synchronizer *)
InitVersions == InitBatch /\ max_concurrent_tasks = MaxConcurrent

NextVersions ==
    \/ rerun_task_read(MaxReruns)
    \/ rerun_task_insert
    \/ rerun_task_except
    \/ scheduled_process_record_detail_tasks
    \/ process_record_detail_tasks_while
    \/ process_detail_task_status
    \/ process_detail_task_status_read
    \/ process_detail_task_status_insert
    \/ process_detail_alarm_inject_status
    \/ check_and_update_overall_record_status

SpecVersions == InitVersions /\ [][NextVersions]_vars

(* SpecDrivers: the process endpoint is called twice while the latest record is
   Processing; each call adds scheduled_process_record_detail_tasks as a background
   task, and the two coroutines interleave at their awaits.  The detail of the batch
   is Pending, or Processing with the run of its version 2 stored as Success; the
   agent takes or refuses requests and no run ends meanwhile *)
ProcessCalls == {1, 2}

InitDrivers ==
    /\ InitSched
    /\ max_concurrent_tasks = 1
    /\ tasks = {AutoTask}
    /\ calls = <<>>
    /\ record_status = "Processing"
    /\ \/ /\ detail = PendingDetail
          /\ versions = [k \in {<<AutoTask, 1>>} |-> SuccessRow]
       \/ /\ detail = processing_detail(PendingDetail, 2)
          /\ versions = [k \in {<<AutoTask, 1>>, <<AutoTask, 2>>} |-> SuccessRow]
    /\ alarm_sync_record \in BOOLEAN
    /\ ar = [d \in ProcessCalls |-> IdleDriver]
    /\ InitNoMetrics

NextDrivers == AutoRefresh

SpecDrivers == InitDrivers /\ [][NextDrivers]_vars

(* SpecInit: initialize_auto_refresh_task, whose store operations succeed or raise,
   then the driver and the agent it calls *)
InitInit ==
    /\ InitSched
    /\ max_concurrent_tasks = 1
    /\ tasks \in {{}, {AutoTask}}
    /\ versions = [k \in {<<AutoTask, 1>>} |-> SuccessRow]
    /\ calls = <<>>
    /\ record_status = "none"
    /\ detail = NoDetail
    /\ alarm_sync_record \in BOOLEAN
    /\ ar = [d \in {1} |-> IdleDriver]
    /\ InitNoMetrics

NextInit ==
    \/ initialize_auto_refresh_task
    \/ initialize_auto_refresh_task_details
    \/ initialize_auto_refresh_task_flip
    \/ rollback_auto_refresh_task_creation
    \/ scheduled_process_record_detail_tasks
    \/ process_record_detail_tasks_while
    \/ process_detail_task_status
    \/ process_detail_task_status_read
    \/ process_detail_task_status_insert
    \/ process_detail_alarm_inject_status
    \/ process_detail_alarm_inject_status_sync
    \/ check_and_update_overall_record_status
    \/ Terminate(RefreshOutcomes)
    \/ Callback
    \/ ProcessQueueTask
    \/ UpdateAttempt

SpecInit == InitInit /\ [][NextInit]_vars

(* SpecInitFair: SpecInit where initialize is called and every handler, run,
   callback and task that can take a step eventually takes it; the process endpoint
   is called again while the record is Processing *)
Initialize ==
    \/ initialize_auto_refresh_task
    \/ initialize_auto_refresh_task_details
    \/ initialize_auto_refresh_task_flip
    \/ rollback_auto_refresh_task_creation

SpecInitFair ==
    /\ SpecInit
    /\ WF_vars(Initialize) /\ WF_vars(AutoRefresh) /\ WF_vars(Terminate(RefreshOutcomes))
    /\ WF_vars(Callback) /\ WF_vars(ProcessQueueTask) /\ WF_vars(UpdateAttempt)

-----------------------------------------------------------------------------
(* Part 3: the rule synchronizer (metrics/zabbix.py RuleSynchronizer, metrics/base.py
   BaseRuleSynchronizer and RateLimiter).  sync_rules reads the live triggers and
   the version result and plans the operations without suspending; every operation
   runs in its own asyncio task, each attempt of it being one step. *)

engineVars == <<schedVars, versions, tasks, calls, record_status, detail,
                alarm_sync_record, ar, algoVars>>

MaxResults == 2
Hostnames == {"h1", "h2"}
StaleHostname == "h0"       \* a host with a live rule and no threshold result
NoHostname == ""            \* labels.get("hostname") of an entry without that label

(* f"{datasource.name}.{datasource.metric_name}.{hostname}" *)
unique_key(hostname) == <<"name", "metric_name", hostname>>

(* the description of a trigger that has none *)
NoDescription == <<>>
Descriptions == {unique_key(h) : h \in Hostnames \cup {StaleHostname}} \cup {NoDescription}

Range(seq) == {seq[i] : i \in DOMAIN seq}

(* existing_rule_keys: the triggers by description, those without one left out *)
existing_rule_keys(triggers) == {d \in triggers : d # NoDescription}

(* result_rule_keys: the keys of the dict, in insertion order; an entry without a
   hostname is skipped and a repeated hostname keeps its first position *)
RECURSIVE result_rule_keys(_)
result_rule_keys(res) ==
    IF res = <<>> THEN <<>>
    ELSE LET front == result_rule_keys(SubSeq(res, 1, Len(res) - 1))
             hostname == res[Len(res)]
         IN  IF hostname = NoHostname \/ unique_key(hostname) \in Range(front)
             THEN front
             ELSE Append(front, unique_key(hostname))

Op(type, key, keys) == [type |-> type, unique_key |-> key, unique_keys |-> keys]

create_operations(keys, existing) ==
    LET absent(k) == k \notin existing
        chosen == SelectSeq(keys, absent)
    IN  [i \in DOMAIN chosen |-> Op("create", chosen[i], {})]

update_operations(keys, existing) ==
    LET present(k) == k \in existing
        chosen == SelectSeq(keys, present)
    IN  [i \in DOMAIN chosen |-> Op("update", chosen[i], {})]

delete_operations_mut_all(keys, existing) == existing

delete_operations(keys, existing) == {k \in existing : k \notin Range(keys)}

(* _execute_operations: the creates, the updates, then one bulk delete if any *)
all_operations(creates, updates, deletes) ==
    creates \o updates \o
    (IF deletes # {} THEN <<Op("delete", NoDescription, deletes)>> ELSE <<>>)

(* the task of one operation: the attempt index of execute_with_retry, the calls of
   the operation function so far, how the task stands, and whether the provider
   call of the last attempt raised *)
OpTask(attempt, invoked, state) ==
    [attempt |-> attempt, invoked |-> invoked, state |-> state, client_raised |-> FALSE]

(* sync_rules up to the await of gather: get_triggers may raise, which sync_rules
   re-raises; otherwise every planned operation gets its task *)
sync_rules ==
    /\ sync.pc = "idle"
    /\ \E raised \in BOOLEAN :
          IF raised
          THEN sync' = [sync EXCEPT !.pc = "raised"] /\ UNCHANGED <<operations, op_tasks>>
          ELSE LET existing == existing_rule_keys(existing_triggers)
                   keys == result_rule_keys(version_result)
                   ops == all_operations(create_operations(keys, existing),
                                         update_operations(keys, existing),
                                         delete_operations(keys, existing))
               IN  /\ operations' = ops
                   /\ op_tasks' = [i \in DOMAIN ops |-> OpTask(0, 0, "running")]
                   /\ sync' = [sync EXCEPT !.pc = "gather"]
    /\ UNCHANGED <<engineVars, limiterVars, existing_triggers, version_result>>

(* execute_with_retry: for attempt in range(max_retries + 1); the function returns a
   result with status success or error, or raises; after a raise the task sleeps
   and tries again while attempt < max_retries, else the exception leaves the task *)
max_retries == 3

(* self.client.create_rule / update_rule / delete_rules: returns or raises *)
ClientOutcomes == {"returns", "raises"}

(* _create_rule_wrapper, _update_rule_wrapper and _delete_rules_wrapper: the provider
   call sits in try/except Exception, and the except branch returns a result with
   status error *)
rule_wrapper(client) == IF client = "raises" THEN "error" ELSE "success"

(* rate_limit around the wrapper: reading the group and the quota and acquiring the
   token may raise, and then the wrapper is not entered; otherwise the wrapper's
   result is returned *)
rate_limit(acquired, client) == IF acquired THEN rule_wrapper(client) ELSE "raise"

execute_with_retry(i) ==
    /\ sync.pc = "gather"
    /\ op_tasks[i].state = "running"
    /\ \E acquired \in BOOLEAN, client \in ClientOutcomes :
          LET t == op_tasks[i]
              outcome == rate_limit(acquired, client)
          IN  op_tasks' = [op_tasks EXCEPT ![i] =
                  IF outcome # "raise"
                  THEN [OpTask(t.attempt, t.invoked + 1, outcome)
                            EXCEPT !.client_raised = (client = "raises")]
                  ELSE IF t.attempt < max_retries
                       THEN OpTask(t.attempt + 1, t.invoked + 1, "running")
                       ELSE OpTask(t.attempt, t.invoked + 1, "raised")]
    /\ UNCHANGED <<engineVars, limiterVars, existing_triggers, version_result,
                   operations, sync>>

(* the operations that go to rule_operations.failed: the result is an exception, or
   its status is not success *)
failed_operations_mut_dropraised(ts) == {i \in DOMAIN ts : ts[i].state = "error"}

failed_operations(ts) == {i \in DOMAIN ts : ts[i].state \in {"raised", "error"}}

succeeded(ts, ops, type) == {i \in DOMAIN ts : ts[i].state = "success" /\ ops[i].type = type}

RECURSIVE SumDeleted(_, _)
SumDeleted(ops, S) ==
    IF S = {} THEN 0
    ELSE LET i == CHOOSE x \in S : TRUE
         IN  Cardinality(ops[i].unique_keys) + SumDeleted(ops, S \ {i})

(* execute_operations after gather with return_exceptions=True: every task has
   ended; the results are sorted into create, update, delete (one entry for each
   deleted rule id) and failed, and counted *)
execute_operations_return ==
    /\ sync.pc = "gather"
    /\ \A i \in DOMAIN op_tasks : op_tasks[i].state # "running"
    /\ LET created == Cardinality(succeeded(op_tasks, operations, "create"))
           updated == Cardinality(succeeded(op_tasks, operations, "update"))
           deleted == SumDeleted(operations, succeeded(op_tasks, operations, "delete"))
           failed == failed_operations(op_tasks)
       IN  sync' = [pc |-> "returned",
                    returned |-> [total |-> created + updated + deleted + Cardinality(failed),
                                  created |-> created, updated |-> updated,
                                  deleted |-> deleted, failed |-> failed]]
    /\ UNCHANGED <<engineVars, limiterVars, existing_triggers, version_result,
                   operations, op_tasks>>

(* SpecSync: one sync_rules call on any live triggers and any version result *)
InitSync ==
    /\ InitSched /\ max_concurrent_tasks = 1
    /\ versions = [k \in {<<AutoTask, 1>>} |-> SuccessRow]
    /\ tasks = {AutoTask}
    /\ calls = <<>>
    /\ record_status = "none"
    /\ detail = NoDetail
    /\ alarm_sync_record = TRUE
    /\ ar = [d \in {1} |-> IdleDriver]
    /\ InitLimiter(1) /\ InitNoAlgo
    /\ existing_triggers \in SUBSET Descriptions
    /\ version_result \in UNION {[1..n -> Hostnames \cup {NoHostname}] : n \in 0..MaxResults}
    /\ operations = <<>>
    /\ op_tasks = <<>>
    /\ sync = [pc |-> "idle", returned |-> [total |-> 0, created |-> 0, updated |-> 0,
                                          deleted |-> 0, failed |-> {}]]

NextSync ==
    \/ sync_rules
    \/ \E i \in DOMAIN op_tasks : execute_with_retry(i)
    \/ execute_operations_return

SpecSync == InitSync /\ [][NextSync]_vars

(* SpecSyncFair: the syncs whose triggers all have a description and whose result
   entries all have a hostname (the others plan the same operations); the event
   loop runs every task that is ready, and gather resumes when all have ended *)
InitSyncFair ==
    /\ InitSync
    /\ NoDescription \notin existing_triggers
    /\ NoHostname \notin Range(version_result)

SpecSyncFair ==
    /\ InitSyncFair /\ [][NextSync]_vars
    /\ WF_vars(\E i \in DOMAIN op_tasks : execute_with_retry(i))
    /\ WF_vars(execute_operations_return)

(* RateLimiter.  Time is counted in ticks of 1/(qps * TicksPerToken) seconds and
   tokens in units of 1/TicksPerToken token, so that one tick refills one unit, a
   full bucket holds qps * TicksPerToken units and a grant takes TicksPerToken.
   The body of the while loop holds the lock and has no await in it: one pass is
   one step.  asyncio.sleep resumes the caller at its wake time or later. *)
MaxCallers == 4
MaxTime == 6
TicksPerToken == 2
QpsValues == {1, 2}

Min(a, b) == IF a < b THEN a ELSE b

(* bucket["tokens"] = min(float(qps), tokens + time_passed * qps) *)
refill_mut_nocap(bucket, t, quota) ==
    [tokens |-> bucket.tokens + (t - bucket.last_refill), last_refill |-> t]

refill(bucket, t, quota) ==
    [tokens |-> Min(quota * TicksPerToken, bucket.tokens + (t - bucket.last_refill)),
     last_refill |-> t]

Caller(pc, arrived, wake) == [pc |-> pc, arrived |-> arrived, wake |-> wake]

(* one pass of the loop by caller i: take the bucket (a full one if the key has
   none), refill it, and either take a token and return or store the bucket and
   sleep for (1 - tokens) / qps *)
acquire_token_pass(i, waiting) ==
    LET bucket == IF buckets = NoBucket
                  THEN [tokens |-> qps * TicksPerToken, last_refill |-> loop_time]
                  ELSE buckets
        filled == refill(bucket, loop_time, qps)
    IN  IF filled.tokens >= TicksPerToken
        THEN /\ buckets' = [filled EXCEPT !.tokens = @ - TicksPerToken]
             /\ callers' = [waiting EXCEPT ![i] = Caller("returned", waiting[i].arrived, loop_time)]
             /\ grants' = Append(grants, <<i, loop_time>>)
        ELSE /\ buckets' = filled
             /\ callers' = [waiting EXCEPT ![i] =
                               Caller("sleep", waiting[i].arrived,
                                      loop_time + (TicksPerToken - filled.tokens))]
             /\ UNCHANGED grants

(* a new caller invokes acquire_token and runs its first pass *)
acquire_token ==
    /\ Len(callers) < MaxCallers
    /\ acquire_token_pass(Len(callers) + 1, Append(callers, Caller("lock", loop_time, loop_time)))
    /\ UNCHANGED <<engineVars, syncVars, qps, loop_time>>

(* a caller whose sleep is over runs the next pass *)
acquire_token_wake(i) ==
    /\ callers[i].pc = "sleep"
    /\ callers[i].wake <= loop_time
    /\ acquire_token_pass(i, callers)
    /\ UNCHANGED <<engineVars, syncVars, qps, loop_time>>

Tick ==
    /\ loop_time < MaxTime
    /\ loop_time' = loop_time + 1
    /\ UNCHANGED <<engineVars, syncVars, qps, buckets, callers, grants>>

(* SpecLimiter: callers of one bucket arriving at any times *)
InitRateLimiter ==
    /\ InitSched /\ InitNoSync /\ InitNoAlgo
    /\ max_concurrent_tasks = 1
    /\ tasks = {}
    /\ calls = <<>>
    /\ record_status = "none"
    /\ detail = NoDetail
    /\ alarm_sync_record = FALSE
    /\ ar = [d \in {1} |-> IdleDriver]
    /\ versions = [k \in {<<AutoTask, 1>>} |-> SuccessRow]
    /\ \E quota \in QpsValues : InitLimiter(quota)

NextLimiter ==
    \/ acquire_token
    \/ \E i \in DOMAIN callers : acquire_token_wake(i)
    \/ Tick

SpecLimiter == InitRateLimiter /\ [][NextLimiter]_vars

-----------------------------------------------------------------------------
(***************************************************************************)
(* Part 4: the threshold algorithm and the time-series keys                *)
(* (metrics/base.py, algorithm/intelligent_threshold/).  These are pure    *)
(* functions: each specification draws the arguments in its initial state  *)
(* and its actions apply the function to them.                             *)
(***************************************************************************)
(* the variables of Parts 1 to 3, which the algorithm leaves alone; the arguments
   and results of the functions of Part 4 are named where they stay unchanged *)
otherVars == <<schedVars, versions, tasks, calls, record_status, detail,
               alarm_sync_record, ar, limiterVars, syncVars>>

InitOther ==
    /\ InitSched /\ max_concurrent_tasks = 1
    /\ versions = EmptyDict
    /\ tasks = {}
    /\ calls = <<>>
    /\ record_status = "none"
    /\ detail = NoDetail
    /\ alarm_sync_record = FALSE
    /\ ar = [d \in {1} |-> IdleDriver]
    /\ InitLimiter(1) /\ InitNoSync

(* A str is the sequence of its code points; Python orders strs
   lexicographically by code point, a proper prefix first *)
RECURSIVE StrLess(_, _)
StrLess(a, b) ==
    IF b = <<>> THEN FALSE
    ELSE IF a = <<>> THEN TRUE
    ELSE IF Head(a) # Head(b) THEN Head(a) < Head(b)
    ELSE StrLess(Tail(a), Tail(b))

(* the order of the (key, value) tuples sorted() compares *)
ItemLess(x, y) == StrLess(x[1], y[1]) \/ (x[1] = y[1] /\ StrLess(x[2], y[2]))

(* sorted(): a stable ascending sort, here by insertion from the left *)
RECURSIVE Insert(_, _)
Insert(item, seq) ==
    IF seq = <<>> THEN <<item>>
    ELSE IF ItemLess(item, Head(seq)) THEN <<item>> \o seq
    ELSE <<Head(seq)>> \o Insert(item, Tail(seq))

sorted_mut_asinserted(items) == items

RECURSIVE sorted(_)
sorted(items) ==
    IF items = <<>> THEN <<>>
    ELSE Insert(items[Len(items)], sorted(SubSeq(items, 1, Len(items) - 1)))

Comma == <<44>>
Equals == <<61>>
Bar == <<124>>

(* ",".join(parts) *)
RECURSIVE join(_, _)
join(sep, parts) ==
    IF parts = <<>> THEN <<>>
    ELSE IF Len(parts) = 1 THEN parts[1]
    ELSE parts[1] \o sep \o join(sep, Tail(parts))

(* generate_unique_key(name, labels): labels.items() is the insertion order *)
generate_unique_key(name, labels) ==
    LET sorted_labels == sorted(labels)
        labels_str == join(Comma, [i \in DOMAIN sorted_labels |->
                           sorted_labels[i][1] \o Equals \o sorted_labels[i][2]])
    IN  name \o Bar \o labels_str

(* the arguments: names and label keys over "a" and "b", values "x" and "y" *)
MaxLabels == 3
Names == {<<97>>, <<98, 97>>}
LabelKeys == {<<97>>, <<98>>, <<97, 97>>, <<97, 98>>}
LabelValues == {<<120>>, <<121>>}

(* a dict has each key once *)
IsDict(items) == \A i, j \in DOMAIN items : items[i][1] = items[j][1] => i = j

LabelDicts ==
    {items \in UNION {[1..n -> LabelKeys \X LabelValues] : n \in 0..MaxLabels} : IsDict(items)}

generate_unique_key_call ==
    /\ ts_key = NoKey
    /\ ts_key' = generate_unique_key(ts_name, ts_labels)
    /\ UNCHANGED <<otherVars, moreVars, mergerVars, maximum_threshold_blocks, bothVars, calcVars,
                   ts_name, ts_labels>>

(* the same pairs put into a dict in another order: the first inserted pair is
   deleted and inserted again; the key computed before is kept for comparison *)
reinsert_label ==
    /\ Len(ts_labels) > 1
    /\ ts_labels' = Tail(ts_labels) \o <<Head(ts_labels)>>
    /\ UNCHANGED <<otherVars, moreVars, mergerVars, maximum_threshold_blocks, bothVars, calcVars,
                   ts_name, ts_key>>

swap_labels ==
    /\ Len(ts_labels) > 1
    /\ ts_labels' = <<ts_labels[2], ts_labels[1]>> \o SubSeq(ts_labels, 3, Len(ts_labels))
    /\ UNCHANGED <<otherVars, moreVars, mergerVars, maximum_threshold_blocks, bothVars, calcVars,
                   ts_name, ts_key>>

InitKey ==
    /\ InitOther /\ InitNoMerger /\ InitNoBoth /\ InitNoCalc /\ InitNoMore
    /\ maximum_threshold_blocks = DEFAULT_MAXIMUM_THRESHOLD_BLOCKS
    /\ ts_name \in Names
    /\ ts_labels \in LabelDicts
    /\ ts_key = NoKey

NextKey == generate_unique_key_call \/ reinsert_label \/ swap_labels

SpecKey == InitKey /\ [][NextKey]_vars

(* IntelligentThresholdConfig.  An Optional[float] is None or Some(v); the bounds
   of the model are integers *)
None == <<>>
Some(v) == <<v>>

IntelligentThresholdConfig(start_hour, end_hour, upper_bound, lower_bound, window_size) ==
    [start_hour |-> start_hour, end_hour |-> end_hour, upper_bound |-> upper_bound,
     lower_bound |-> lower_bound, window_size |-> window_size]

max(S) == CHOOSE x \in S : \A y \in S : y <= x
min(S) == CHOOSE x \in S : \A y \in S : x <= y
abs(x) == IF x < 0 THEN -x ELSE x
Last(seq) == seq[Len(seq)]

(* [c.upper_bound for c in configs if c.upper_bound is not None], as the set of its
   values: only max and min are taken of it *)
upper_bounds(configs) ==
    {configs[i].upper_bound[1] : i \in {j \in DOMAIN configs : configs[j].upper_bound # None}}

lower_bounds(configs) ==
    {configs[i].lower_bound[1] : i \in {j \in DOMAIN configs : configs[j].lower_bound # None}}

(* (max - min) / max > 0.1; max - min is never negative, so the quotient is at most
   0 when max is negative *)
diff_ratio_exceeds_mut_twentieth(max_bound, min_bound) ==
    max_bound > 0 /\ (max_bound - min_bound) * 20 > max_bound

diff_ratio_exceeds(max_bound, min_bound) ==
    max_bound > 0 /\ (max_bound - min_bound) * 10 > max_bound

(* the merge condition of can_merge_threshold_configs for one kind of bound *)
bounds_mergeable(bounds) ==
    \/ bounds = {}
    \/ IF max(bounds) = 0
       THEN max(bounds) = min(bounds)
       ELSE ~diff_ratio_exceeds(max(bounds), min(bounds))

can_merge_threshold_configs(configs) ==
    \/ Len(configs) <= 1
    \/ /\ Cardinality({configs[i].window_size : i \in DOMAIN configs}) = 1
       /\ bounds_mergeable(upper_bounds(configs))
       /\ bounds_mergeable(lower_bounds(configs))

merge_threshold_configs(configs) ==
    IF Len(configs) = 1 THEN configs[1]
    ELSE IntelligentThresholdConfig(
             configs[1].start_hour,
             Last(configs).end_hour,
             IF upper_bounds(configs) # {} THEN Some(max(upper_bounds(configs))) ELSE None,
             IF lower_bounds(configs) # {} THEN Some(min(lower_bounds(configs))) ELSE None,
             configs[1].window_size)

(* _calculate_merge_difference: the mean of the relative differences of the bounds
   both blocks have, as a fraction <<numerator, denominator>> *)
relative_differences(bound1, bound2) ==
    IF bound1 # None /\ bound2 # None /\ max({abs(bound1[1]), abs(bound2[1])}) > 0
    THEN << <<abs(bound1[1] - bound2[1]), max({abs(bound1[1]), abs(bound2[1])})>> >>
    ELSE <<>>

calculate_merge_difference(config1, config2) ==
    LET differences == relative_differences(config1.upper_bound, config2.upper_bound) \o
                       relative_differences(config1.lower_bound, config2.lower_bound)
    IN  IF Len(differences) = 0 THEN <<0, 1>>
        ELSE IF Len(differences) = 1 THEN differences[1]
        ELSE <<differences[1][1] * differences[2][2] + differences[2][1] * differences[1][2],
               2 * differences[1][2] * differences[2][2]>>

FractionLess(x, y) == x[1] * y[2] < y[1] * x[2]

(* the while loop of _hierarchical_merge_thresholds over the groups of blocks: merge
   the first continuous adjacent pair of smallest difference; stop when there is none *)
RECURSIVE hierarchical_merge_blocks(_, _)
hierarchical_merge_blocks(blocks, max_blocks) ==
    IF Len(blocks) <= max_blocks THEN blocks
    ELSE LET continuous == {i \in 1..(Len(blocks) - 1) :
                               Last(blocks[i]).end_hour = blocks[i + 1][1].start_hour}
             diff(i) == calculate_merge_difference(Last(blocks[i]), blocks[i + 1][1])
         IN  IF continuous = {} THEN blocks
             ELSE LET min_diff_idx == CHOOSE i \in continuous : \A j \in continuous :
                                         /\ ~FractionLess(diff(j), diff(i))
                                         /\ j < i => FractionLess(diff(i), diff(j))
                  IN  hierarchical_merge_blocks(
                          SubSeq(blocks, 1, min_diff_idx - 1) \o
                          <<blocks[min_diff_idx] \o blocks[min_diff_idx + 1]>> \o
                          SubSeq(blocks, min_diff_idx + 2, Len(blocks)),
                          max_blocks)

hierarchical_merge_thresholds(configs, max_blocks) ==
    IF Len(configs) <= max_blocks THEN configs
    ELSE LET blocks == hierarchical_merge_blocks([i \in DOMAIN configs |-> <<configs[i]>>],
                                                 max_blocks)
         IN  [i \in DOMAIN blocks |-> merge_threshold_configs(blocks[i])]

(* sorted(valid_thresholds, key=lambda x: x.start_hour): stable *)
RECURSIVE insert_by_start_hour(_, _)
insert_by_start_hour(config, seq) ==
    IF seq = <<>> THEN <<config>>
    ELSE IF config.start_hour < Head(seq).start_hour THEN <<config>> \o seq
    ELSE <<Head(seq)>> \o insert_by_start_hour(config, Tail(seq))

RECURSIVE sorted_by_start_hour(_)
sorted_by_start_hour(configs) ==
    IF configs = <<>> THEN <<>>
    ELSE insert_by_start_hour(Last(configs),
                              sorted_by_start_hour(SubSeq(configs, 1, Len(configs) - 1)))

(* the greedy loop of merge_continuous_thresholds from index i on *)
RECURSIVE greedy_merge(_, _, _, _)
greedy_merge(sorted_thresholds, i, current_group, merged_result) ==
    IF i > Len(sorted_thresholds)
    THEN Append(merged_result, merge_threshold_configs(current_group))
    ELSE IF /\ Last(current_group).end_hour = sorted_thresholds[i].start_hour
            /\ can_merge_threshold_configs(Append(current_group, sorted_thresholds[i]))
    THEN greedy_merge(sorted_thresholds, i + 1,
                      Append(current_group, sorted_thresholds[i]), merged_result)
    ELSE greedy_merge(sorted_thresholds, i + 1, <<sorted_thresholds[i]>>,
                      Append(merged_result, merge_threshold_configs(current_group)))

has_bound(config) == config.upper_bound # None \/ config.lower_bound # None

merge_continuous_thresholds(configs) ==
    LET valid_thresholds == SelectSeq(configs, has_bound)
    IN  IF Len(valid_thresholds) <= 1 THEN configs
        ELSE LET sorted_thresholds == sorted_by_start_hour(valid_thresholds)
                 merged_result == greedy_merge(sorted_thresholds, 2,
                                               <<sorted_thresholds[1]>>, <<>>)
             IN  IF Len(merged_result) > maximum_threshold_blocks
                 THEN hierarchical_merge_thresholds(merged_result, maximum_threshold_blocks)
                 ELSE merged_result

(* time_split_ranges of ThresholdRecommendAlgorithm: DEFAULT_NUMBER_OF_TIME_SPLIT
   equal ranges of the day *)
DEFAULT_NUMBER_OF_TIME_SPLIT == 4

time_split_ranges ==
    [i \in 1..DEFAULT_NUMBER_OF_TIME_SPLIT |->
        <<(i - 1) * (24 \div DEFAULT_NUMBER_OF_TIME_SPLIT),
          i * (24 \div DEFAULT_NUMBER_OF_TIME_SPLIT)>>]

(* the lists given to the merger: the one block of an unsplit day, or one block for
   each range of time_split_ranges, in any order, each with an upper bound or none *)
UpperValues == {0, 9, 10, 20}
WindowSizes == {5, 10}
WindowLists ==
    {[i \in 1..DEFAULT_NUMBER_OF_TIME_SPLIT |-> w] : w \in WindowSizes} \cup
    {[i \in 1..DEFAULT_NUMBER_OF_TIME_SPLIT |-> IF i = k THEN 10 ELSE 5] :
        k \in 1..DEFAULT_NUMBER_OF_TIME_SPLIT}

(* the orders of the ranges: every rotation of the day, forwards and backwards *)
Orders ==
    UNION {{[i \in 1..DEFAULT_NUMBER_OF_TIME_SPLIT |->
                ((i - 1 + k) % DEFAULT_NUMBER_OF_TIME_SPLIT) + 1],
            [i \in 1..DEFAULT_NUMBER_OF_TIME_SPLIT |->
                DEFAULT_NUMBER_OF_TIME_SPLIT - ((i - 1 + k) % DEFAULT_NUMBER_OF_TIME_SPLIT)]} :
           k \in 0..(DEFAULT_NUMBER_OF_TIME_SPLIT - 1)}

UpThresholdLists ==
    {<<>>} \cup
    {<<IntelligentThresholdConfig(0, 24, upper, None, window)>> :
        upper \in {None} \cup {Some(v) : v \in UpperValues}, window \in WindowSizes} \cup
    {[i \in 1..DEFAULT_NUMBER_OF_TIME_SPLIT |->
        IntelligentThresholdConfig(time_split_ranges[order[i]][1],
                                   time_split_ranges[order[i]][2],
                                   uppers[i], None, windows[i])] :
        order \in Orders,
        uppers \in [1..DEFAULT_NUMBER_OF_TIME_SPLIT -> {None} \cup {Some(v) : v \in UpperValues}],
        windows \in WindowLists}

merge_continuous_thresholds_call ==
    /\ merged_thresholds = NotMerged
    /\ merged_thresholds' = [returned |-> TRUE,
                             thresholds |-> merge_continuous_thresholds(thresholds)]
    /\ UNCHANGED <<otherVars, moreVars, keyVars, maximum_threshold_blocks, bothVars, calcVars, thresholds>>

(* the maximum_threshold_blocks given to the constructor under SpecMerge *)
MaxBlocks == 2

InitMerge ==
    /\ InitOther /\ InitNoKey /\ InitNoBoth /\ InitNoCalc /\ InitNoMore
    /\ maximum_threshold_blocks = MaxBlocks
    /\ thresholds \in UpThresholdLists
    /\ merged_thresholds = NotMerged

NextMerge == merge_continuous_thresholds_call

SpecMerge == InitMerge /\ [][NextMerge]_vars

(* MetricThresholdResult; name and labels are carried along with unique_key *)
MetricThresholdResult(key, threshold_configs, status, error_message) ==
    [unique_key |-> key, thresholds |-> threshold_configs, status |-> status,
     error_message |-> error_message]

(* merge_metric_threshold_results *)
merge_metric_threshold_results_mut_asis(results) == results

merge_metric_threshold_results(results) ==
    [i \in DOMAIN results |->
        [results[i] EXCEPT !.thresholds = merge_continuous_thresholds(@)]]

(* up_consolidated, down_consolidated: a single block covering [0,24] *)
consolidated_mut_never(threshold_configs) == FALSE

consolidated(threshold_configs) ==
    /\ Len(threshold_configs) = 1
    /\ threshold_configs[1].start_hour = 0
    /\ threshold_configs[1].end_hour = 24

(* the indices of the blocks of a list with the hours of a block *)
same_hours(threshold_configs, config) ==
    {i \in DOMAIN threshold_configs :
        /\ threshold_configs[i].start_hour = config.start_hour
        /\ threshold_configs[i].end_hour = config.end_hour}

(* the thresholds of the merged result of two Success results *)
both_thresholds(up_thresholds, down_thresholds) ==
    IF consolidated(up_thresholds) /\ ~consolidated(down_thresholds)
    THEN [i \in DOMAIN down_thresholds |->
             [down_thresholds[i] EXCEPT !.upper_bound = up_thresholds[1].upper_bound]]
    ELSE IF ~consolidated(up_thresholds) /\ consolidated(down_thresholds)
    THEN [i \in DOMAIN up_thresholds |->
             [up_thresholds[i] EXCEPT !.lower_bound = down_thresholds[1].lower_bound]]
    ELSE IF consolidated(up_thresholds) /\ consolidated(down_thresholds)
    THEN \* next(...): the first block of down with the same hours
         [i \in DOMAIN up_thresholds |->
             IF same_hours(down_thresholds, up_thresholds[i]) # {}
             THEN [up_thresholds[i] EXCEPT !.lower_bound =
                      down_thresholds[min(same_hours(down_thresholds,
                                                         up_thresholds[i]))].lower_bound]
             ELSE up_thresholds[i]]
    ELSE \* down_thresholds_map: the last block of down with the same hours
         LET unmatched(config) == same_hours(up_thresholds, config) = {}
         IN  [i \in DOMAIN up_thresholds |->
                 IF same_hours(down_thresholds, up_thresholds[i]) # {}
                 THEN [up_thresholds[i] EXCEPT !.lower_bound =
                          down_thresholds[max(same_hours(down_thresholds,
                                                         up_thresholds[i]))].lower_bound]
                 ELSE up_thresholds[i]]
             \o SelectSeq(down_thresholds, unmatched)

(* whether the merged result of a key is Failed *)
either_failed_mut_uponly(up_result, down_result) == up_result.status # "Success"

either_failed(up_result, down_result) ==
    up_result.status # "Success" \/ down_result.status # "Success"

(* _merge_threshold_results *)
merge_threshold_results(ups, downs) ==
    LET keys(results) == {results[i].unique_key : i \in DOMAIN results}
        \* down_results_map: the last result of a key
        down_results_map(key) ==
            downs[max({i \in DOMAIN downs : downs[i].unique_key = key})]
        merged_result(up_result) ==
            IF up_result.unique_key \in keys(downs)
            THEN LET down_result == down_results_map(up_result.unique_key)
                 IN  IF either_failed(up_result, down_result)
                     THEN MetricThresholdResult(
                              up_result.unique_key, <<>>, "Failed",
                              IF up_result.status # "Success"
                              THEN up_result.error_message
                              ELSE down_result.error_message)
                     ELSE MetricThresholdResult(
                              up_result.unique_key,
                              both_thresholds(up_result.thresholds, down_result.thresholds),
                              "Success", "")
            ELSE up_result
        down_only(down_result) == down_result.unique_key \notin keys(ups)
    IN  merge_metric_threshold_results(
            [i \in DOMAIN ups |-> merged_result(ups[i])] \o SelectSeq(downs, down_only))

(* the results given to the merge: for series k1, up is Failed, the one block
   [0,24] with upper bound 80, or four blocks; down is Failed, one block or four
   blocks, forwards or backwards; series k2 may be on either side *)
DownLowerValues == {20, 21, 30, 40}
Ranges == DOMAIN time_split_ranges

four_blocks(bounds, windows, is_upper, backwards) ==
    [i \in Ranges |->
        LET r == IF backwards THEN DEFAULT_NUMBER_OF_TIME_SPLIT + 1 - i ELSE i
        IN  IntelligentThresholdConfig(
                time_split_ranges[r][1], time_split_ranges[r][2],
                IF is_upper THEN Some(bounds[r]) ELSE None,
                IF is_upper THEN None ELSE Some(bounds[r]),
                windows[r])]

SameWindows == [i \in Ranges |-> 5]
MixedWindows == [i \in Ranges |-> IF i % 2 = 1 THEN 5 ELSE 10]

UpThresholds ==
    {<<IntelligentThresholdConfig(0, 24, Some(80), None, 5)>>} \cup
    {four_blocks(bounds, SameWindows, TRUE, FALSE) :
        bounds \in {[i \in Ranges |-> 80], [i \in Ranges |-> IF i % 2 = 1 THEN 80 ELSE 100]}}

DownThresholds ==
    {<<IntelligentThresholdConfig(0, 24, None, Some(20), 5)>>} \cup
    {four_blocks(bounds, shape[1], FALSE, shape[2]) :
        bounds \in [Ranges -> DownLowerValues],
        shape \in {<<SameWindows, FALSE>>, <<MixedWindows, FALSE>>, <<SameWindows, TRUE>>}}

FailedResult(key, error_message) == MetricThresholdResult(key, <<>>, "Failed", error_message)

UpResults(key) ==
    {FailedResult(key, "up: invalid data")} \cup
    {MetricThresholdResult(key, t, "Success", "") : t \in UpThresholds}

DownResults(key) ==
    {FailedResult(key, "down: Internal Server Error")} \cup
    {MetricThresholdResult(key, t, "Success", "") : t \in DownThresholds}

OtherResults(key, error_message) ==
    {<<>>, <<FailedResult(key, error_message)>>,
     <<MetricThresholdResult(key, <<IntelligentThresholdConfig(0, 24, Some(80), Some(20), 5)>>,
                             "Success", "")>>}

merge_threshold_results_call ==
    /\ ~merged_results.returned
    /\ merged_results' = [returned |-> TRUE,
                          results |-> merge_threshold_results(up_results, down_results)]
    /\ UNCHANGED <<otherVars, moreVars, keyVars, mergerVars, maximum_threshold_blocks, calcVars,
                   up_results, down_results>>

InitBoth ==
    /\ InitOther /\ InitNoKey /\ InitNoMerger /\ InitNoCalc /\ InitNoMore
    /\ maximum_threshold_blocks = DEFAULT_MAXIMUM_THRESHOLD_BLOCKS
    /\ \E up \in UpResults("k1"), other \in OtherResults("k2", "up: k2 failed") :
          up_results = <<up>> \o other
    /\ \E down \in DownResults("k1"), other \in OtherResults("k2", "down: k2 failed") :
          down_results = other \o <<down>>
    /\ merged_results = [returned |-> FALSE, results |-> <<>>]

NextBoth == merge_threshold_results_call

SpecBoth == InitBoth /\ [][NextBoth]_vars

(* the results of a merge in which series k1 is on one side only: Failed, the one
   block [0,24], or four blocks forwards or backwards of which any may lack its
   bound; series k2 may be on either side *)
SideBounds == {None, Some(80), Some(100)}

side_blocks(bounds, windows, is_upper, backwards) ==
    [i \in Ranges |->
        LET r == IF backwards THEN DEFAULT_NUMBER_OF_TIME_SPLIT + 1 - i ELSE i
        IN  IntelligentThresholdConfig(
                time_split_ranges[r][1], time_split_ranges[r][2],
                IF is_upper THEN bounds[r] ELSE None,
                IF is_upper THEN None ELSE bounds[r],
                windows[r])]

SideThresholds(is_upper) ==
    {<<IntelligentThresholdConfig(0, 24, IF is_upper THEN Some(80) ELSE None,
                                  IF is_upper THEN None ELSE Some(80), 5)>>} \cup
    {side_blocks(bounds, shape[1], is_upper, shape[2]) :
        bounds \in [Ranges -> SideBounds],
        shape \in {<<SameWindows, FALSE>>, <<MixedWindows, FALSE>>, <<SameWindows, TRUE>>}}

SideResults(key, is_upper) ==
    {FailedResult(key, "k1: invalid data")} \cup
    {MetricThresholdResult(key, t, "Success", "") : t \in SideThresholds(is_upper)}

InitOneSide ==
    /\ InitOther /\ InitNoKey /\ InitNoMerger /\ InitNoCalc /\ InitNoMore
    /\ maximum_threshold_blocks = DEFAULT_MAXIMUM_THRESHOLD_BLOCKS
    /\ \E up_other \in OtherResults("k2", "up: k2 failed"),
          down_other \in OtherResults("k2", "down: k2 failed") :
          \/ /\ \E up \in SideResults("k1", TRUE) : up_results = <<up>> \o up_other
             /\ down_results = down_other
          \/ /\ up_results = up_other
             /\ \E down \in SideResults("k1", FALSE) : down_results = down_other \o <<down>>
    /\ merged_results = [returned |-> FALSE, results |-> <<>>]

SpecOneSide == InitOneSide /\ [][NextBoth]_vars

(* A series of task_data.  The sample data is abstracted to what the algorithm
   derives from it: whether _validate_input_data accepts it, the directions in
   which the computation raises, whether the period detector finds a daily period,
   and what threshold_recommendation_with_sliding_window returns for the whole day
   (ignore_count 1) and for each range of time_split_ranges (ignore_count 1 and 0),
   or Insufficient for a range with fewer samples than required *)
Insufficient == <<>>
DefaultWindowSize == 5

Recommended(threshold, threshold_no_ignore) ==
    [threshold |-> threshold, window_size |-> DefaultWindowSize,
     threshold_no_ignore |-> threshold_no_ignore, window_size_no_ignore |-> DefaultWindowSize]

(* ratio = threshold_no_ignore / threshold if threshold != 0 else 1.0, and 1.0 for a
   range with too little data; thresholds are not negative in the model *)
ratio(period, dir) ==
    IF period = Insufficient THEN <<1, 1>>
    ELSE IF period[1][dir].threshold # 0
    THEN <<period[1][dir].threshold_no_ignore, period[1][dir].threshold>>
    ELSE <<1, 1>>

(* thresholds.sort(key=lambda x: x[-1], reverse=True): stable, the largest ratio
   first; the entries are the indices of the ranges *)
RECURSIVE insert_by_ratio(_, _, _, _)
insert_by_ratio(time_index, seq, periods, dir) ==
    IF seq = <<>> THEN <<time_index>>
    ELSE IF FractionLess(ratio(periods[Head(seq)], dir), ratio(periods[time_index], dir))
    THEN <<time_index>> \o seq
    ELSE <<Head(seq)>> \o insert_by_ratio(time_index, Tail(seq), periods, dir)

RECURSIVE sort_by_ratio(_, _, _)
sort_by_ratio(n, periods, dir) ==
    IF n = 0 THEN <<>>
    ELSE insert_by_ratio(n, sort_by_ratio(n - 1, periods, dir), periods, dir)

(* a threshold group with its bound on the side of the direction *)
threshold_group(start_hour, end_hour, threshold, window_size, dir) ==
    [start_hour |-> start_hour, end_hour |-> end_hour,
     upper_bound |-> IF dir = "up" THEN threshold ELSE None,
     lower_bound |-> IF dir = "up" THEN None ELSE threshold,
     window_size |-> window_size]

(* _process_time_split_periods: the first group in ratio order takes the values of
   ignore_count 1, the others those of ignore_count 0 *)
process_time_split_periods(periods, dir) ==
    LET order == sort_by_ratio(Len(periods), periods, dir)
    IN  [i \in DOMAIN order |->
            LET time_index == order[i]
                period == periods[time_index]
            IN  IF period = Insufficient
                THEN threshold_group(time_split_ranges[time_index][1],
                                     time_split_ranges[time_index][2], None, None, dir)
                ELSE threshold_group(
                         time_split_ranges[time_index][1], time_split_ranges[time_index][2],
                         Some(IF i = 1 THEN period[1][dir].threshold
                              ELSE period[1][dir].threshold_no_ignore),
                         Some(IF i = 1 THEN period[1][dir].window_size
                              ELSE period[1][dir].window_size_no_ignore),
                         dir)]

(* _process_single_time_period *)
process_single_time_period(whole, dir) ==
    <<threshold_group(0, 24, Some(whole[dir].threshold), Some(whole[dir].window_size), dir)>>

(* recommend_threshold with time_split = True *)
recommend_threshold(series, dir) ==
    IF ~series.daily_periodic
    THEN process_single_time_period(series.whole, dir)
    ELSE process_time_split_periods(series.periods, dir)

(* _process_time_series_data: results and the three counters *)
RECURSIVE process_time_series_data(_, _, _)
process_time_series_data(data, window_size, dir) ==
    IF data = <<>>
    THEN [results |-> <<>>, success |-> 0, data_errors |-> 0, internal_errors |-> 0]
    ELSE LET data_item == Last(data)
             before == process_time_series_data(SubSeq(data, 1, Len(data) - 1),
                                                window_size, dir)
             threshold_groups == recommend_threshold(data_item, dir)
             \* ws = group.get("window_size") or window_size
             threshold_configs ==
                 [i \in DOMAIN threshold_groups |->
                     IntelligentThresholdConfig(
                         threshold_groups[i].start_hour, threshold_groups[i].end_hour,
                         threshold_groups[i].upper_bound, threshold_groups[i].lower_bound,
                         IF threshold_groups[i].window_size \in {None, Some(0)}
                         THEN window_size ELSE threshold_groups[i].window_size[1])]
         IN  IF ~data_item.valid
             THEN [before EXCEPT
                      !.results = Append(@, FailedResult(data_item.unique_key, "invalid data")),
                      !.data_errors = @ + 1]
             ELSE IF dir \in data_item.raises
             THEN [before EXCEPT
                      !.results = Append(@, FailedResult(data_item.unique_key,
                                                         "Internal Server Error")),
                      !.internal_errors = @ + 1]
             ELSE [before EXCEPT
                      !.results = Append(@, MetricThresholdResult(
                                                data_item.unique_key, threshold_configs,
                                                "Success", "")),
                      !.success = @ + 1]

Response(status, result, message) ==
    [returned |-> TRUE, status |-> status, result |-> result, message |-> message]

error_reason(internal_errors, data_errors) ==
    IF internal_errors > data_errors
    THEN "Internal Server Error" ELSE "Input Data Validation Error"

(* calculate_threshold; fetched is how fetch_data ended *)
calculate_threshold_response(dir, fetched) ==
    IF fetched = "timeout" THEN Response("Failed", <<>>, "Data fetch timeout")
    ELSE IF fetched = "cancelled" THEN Response("Failed", <<>>, "Data fetch was cancelled")
    ELSE IF task_data = <<>>
    THEN Response("NoData", <<>>, "No data available for threshold calculation")
    ELSE IF dir = "both"
    THEN LET up == process_time_series_data(task_data, DefaultWindowSize, "up")
             down == process_time_series_data(task_data, DefaultWindowSize, "down")
             merged == merge_threshold_results(up.results, down.results)
             total_success == up.success + down.success
         IN  IF total_success = 0
             THEN Response("Failed", merged,
                           error_reason(up.internal_errors + down.internal_errors,
                                        up.data_errors + down.data_errors))
             ELSE Response("Success", merged, "Task Success!")
    ELSE LET full == process_time_series_data(task_data, DefaultWindowSize, dir)
         IN  IF full.success = 0
             THEN Response("Failed", full.results,
                           error_reason(full.internal_errors, full.data_errors))
             ELSE Response("Success", full.results, "Task Success!")

calculate_threshold ==
    /\ ~response.returned
    /\ \E fetched \in {"data", "timeout", "cancelled"} :
          response' = calculate_threshold_response(direction, fetched)
    /\ UNCHANGED <<otherVars, moreVars, keyVars, mergerVars, maximum_threshold_blocks, bothVars,
                   direction, task_data>>

(* the series: thresholds 80 or 100 upwards and 20 or 10 downwards *)
PeriodData ==
    {Insufficient} \cup
    {<<[up |-> Recommended(80, no_ignore_up), down |-> Recommended(20, no_ignore_down)]>> :
        no_ignore_up \in {80, 100}, no_ignore_down \in {20, 10}}

FullDay == [up |-> Recommended(80, 100), down |-> Recommended(20, 10)]

Series(key, valid, raises, daily_periodic, periods) ==
    [unique_key |-> key, valid |-> valid, raises |-> raises,
     daily_periodic |-> daily_periodic, whole |-> FullDay, periods |-> periods]

QuietDay == [i \in Ranges |-> <<[up |-> Recommended(80, 80), down |-> Recommended(20, 20)]>>]

FirstSeries ==
    {Series("k1", FALSE, {}, TRUE, QuietDay), Series("k1", TRUE, {}, FALSE, QuietDay)} \cup
    {Series("k1", TRUE, {}, TRUE, periods) : periods \in [Ranges -> PeriodData]} \cup
    {Series("k1", TRUE, raises, TRUE, QuietDay) : raises \in SUBSET {"up", "down"}}

SecondSeries ==
    {Series("k2", FALSE, {}, TRUE, QuietDay)} \cup
    {Series("k2", TRUE, raises, TRUE, QuietDay) : raises \in SUBSET {"up", "down"}}

InitCalc ==
    /\ InitOther /\ InitNoKey /\ InitNoMerger /\ InitNoBoth /\ InitNoMore
    /\ maximum_threshold_blocks = DEFAULT_MAXIMUM_THRESHOLD_BLOCKS
    /\ direction \in {"up", "down", "both"}
    /\ task_data \in {<<>>} \cup {<<first>> : first \in FirstSeries} \cup
                     {<<first, second>> : first \in FirstSeries, second \in SecondSeries}
    /\ response = NoResponse

NextCalc == calculate_threshold

SpecCalc == InitCalc /\ [][NextCalc]_vars

(* recommend_general_threshold of ThresholdRecommendAlgorithm.  Values and
   timestamps are integers; a float that is a quotient is the fraction
   <<numerator, denominator>> with a positive denominator *)
SECONDS_PER_HOUR == 3600
NEGATIVE_INFINITY == None

RECURSIVE sum(_)
sum(seq) == IF seq = <<>> THEN 0 ELSE Head(seq) + sum(Tail(seq))

RECURSIVE insert_number(_, _)
insert_number(x, seq) ==
    IF seq = <<>> THEN <<x>>
    ELSE IF x < Head(seq) THEN <<x>> \o seq
    ELSE <<Head(seq)>> \o insert_number(x, Tail(seq))

RECURSIVE sort_numbers(_)
sort_numbers(seq) ==
    IF seq = <<>> THEN <<>> ELSE insert_number(Head(seq), sort_numbers(Tail(seq)))

(* np.median(intervals), times two *)
twice_median(seq) ==
    LET s == sort_numbers(seq)
        n == Len(seq)
    IN  IF n % 2 = 1 THEN 2 * s[(n + 1) \div 2] ELSE s[n \div 2] + s[n \div 2 + 1]

(* np.percentile(value_list, 95): linear interpolation between the two nearest ranks *)
percentile_95(values) ==
    LET s == sort_numbers(values)
        pos == 95 * (Len(values) - 1)
        k == pos \div 100
        r == pos % 100
    IN  <<s[k + 1] * (100 - r) + (IF r > 0 THEN s[k + 2] * r ELSE 0), 100>>

(* DBSCAN1D(eps=abs(mean)/5, min_samples).fit(data).labels_: a point with at least
   min_samples points within eps (itself included) is a core point; core points
   within eps of each other are one cluster; any other point within eps of a core
   point joins the first such cluster, and the rest is noise, label -1.  A cluster is
   labelled by its first core point *)
neighbours(values, i) ==
    {j \in DOMAIN values :
        abs(values[i] - values[j]) * 5 * Len(values) <= abs(sum(values))}

RECURSIVE density_reachable(_, _, _)
density_reachable(values, cores, S) ==
    LET T == S \cup {j \in cores : \E i \in S : j \in neighbours(values, i)}
    IN  IF T = S THEN S ELSE density_reachable(values, cores, T)

DBSCAN1D_labels(values, min_samples) ==
    LET cores == {i \in DOMAIN values : Cardinality(neighbours(values, i)) >= min_samples}
        label_of_core(i) == min(density_reachable(values, cores, {i}))
    IN  [i \in DOMAIN values |->
            IF i \in cores THEN label_of_core(i)
            ELSE LET near == {label_of_core(j) : j \in neighbours(values, i) \cap cores}
                 IN  IF near = {} THEN -1 ELSE min(near)]

(* the loops over labels and over clusters: the maximum value of the clusters that
   are not noise and have at least cluster_size points *)
cluster_max(values, labels, cluster_size) ==
    LET clusters_data(c) == {j \in DOMAIN labels : labels[j] = c}
        valid == {c \in Range(labels) : c # -1 /\ Cardinality(clusters_data(c)) >= cluster_size}
    IN  IF valid = {} THEN NEGATIVE_INFINITY
        ELSE Some(max({values[j] : j \in UNION {clusters_data(c) : c \in valid}}))

(* value_list[i] > final_max_value *)
exceeds(value, final_max_value) ==
    final_max_value = NEGATIVE_INFINITY \/ value > final_max_value[1]

(* the for loop that collects abnormals: the runs <<left, right, smallest value>> of
   consecutive values above final_max_value *)
RECURSIVE scan_abnormals(_, _, _, _, _)
scan_abnormals(values, final_max_value, i, abnormal, abnormals) ==
    IF i > Len(values) THEN abnormals
    ELSE IF ~exceeds(values[i], final_max_value)
    THEN scan_abnormals(values, final_max_value, i + 1, FALSE, abnormals)
    ELSE IF abnormal
    THEN scan_abnormals(values, final_max_value, i + 1, TRUE,
             [abnormals EXCEPT ![Len(abnormals)] = <<@[1], i, Min(@[3], values[i])>>])
    ELSE scan_abnormals(values, final_max_value, i + 1, TRUE,
             Append(abnormals, <<i, i, values[i]>>))

(* the loop that merges abnormals less than an hour apart *)
RECURSIVE merge_abnormals(_, _, _, _)
merge_abnormals(timestamps, abnormals, i, abnormals_merge) ==
    IF i > Len(abnormals) THEN abnormals_merge
    ELSE IF timestamps[abnormals[i][1]] - timestamps[Last(abnormals_merge)[2]]
                < SECONDS_PER_HOUR
    THEN merge_abnormals(timestamps, abnormals, i + 1,
             [abnormals_merge EXCEPT ![Len(abnormals_merge)] =
                 <<@[1], abnormals[i][2], Min(@[3], abnormals[i][3])>>])
    ELSE merge_abnormals(timestamps, abnormals, i + 1, Append(abnormals_merge, abnormals[i]))

(* the while True loop: final_max_value is raised to the smallest abnormal while
   more than ignore_count abnormals remain *)
RECURSIVE eliminate_abnormals(_, _, _, _, _)
eliminate_abnormals(timestamps, values, window_size, ignore_count, final_max_value) ==
    LET long_enough(a) == a[2] - a[1] + 1 >= window_size
        abnormals == SelectSeq(scan_abnormals(values, final_max_value, 1, FALSE, <<>>),
                               long_enough)
        kept(a) == long_enough(a) /\ exceeds(a[3], final_max_value)
        abnormals_metadata ==
            IF abnormals = <<>> THEN <<>>
            ELSE SelectSeq(merge_abnormals(timestamps, abnormals, 2, <<abnormals[1]>>), kept)
        last == min({abnormals_metadata[i][3] : i \in DOMAIN abnormals_metadata})
    IN  IF Len(abnormals_metadata) <= ignore_count THEN final_max_value
        ELSE eliminate_abnormals(
                 timestamps, values, window_size, ignore_count,
                 Some(IF final_max_value = NEGATIVE_INFINITY THEN last
                      ELSE max({final_max_value[1], last})))

GeneralResult(status, threshold) ==
    [returned |-> TRUE, status |-> status, threshold |-> threshold]

(* max(min_value, threshold) and min(max_value, threshold) of a fraction and a number *)
clamp_below(min_value, threshold) ==
    IF FractionLess(threshold, <<min_value, 1>>) THEN <<min_value, 1>> ELSE threshold

clamp_above(max_value, threshold) ==
    IF FractionLess(<<max_value, 1>>, threshold) THEN <<max_value, 1>> ELSE threshold

recommend_general_threshold(args) ==
    LET timestamp_list == args.timestamp_list_original
        value_list == IF args.direction = "up" THEN args.value_list_original
                      ELSE [i \in DOMAIN args.value_list_original |->
                               -args.value_list_original[i]]
        \* 1.05 + 0.3 * sensitivity, in hundredths
        coefficient == <<105 + 30 * args.sensitivity, 100>>
        intervals == [i \in 1..(Len(timestamp_list) - 1) |->
                         timestamp_list[i + 1] - timestamp_list[i]]
    IN  IF twice_median(intervals) <= 0 THEN GeneralResult(FALSE, <<-1, 1>>)
        ELSE
        LET cluster_size == Min(Len(value_list),
                                max({1, (2 * SECONDS_PER_HOUR) \div twice_median(intervals)}))
            labels == DBSCAN1D_labels(value_list, cluster_size)
            final_max_value == eliminate_abnormals(
                timestamp_list, value_list, args.window_size, args.ignore_count,
                cluster_max(value_list, labels, cluster_size))
        IN  IF final_max_value = NEGATIVE_INFINITY
            THEN LET baseline == percentile_95(value_list)
                 IN  IF args.direction = "up"
                     THEN GeneralResult(TRUE, <<baseline[1] * coefficient[1],
                                                baseline[2] * coefficient[2]>>)
                     ELSE GeneralResult(TRUE, <<(0 - baseline[1]) * coefficient[2],
                                                baseline[2] * coefficient[1]>>)
            ELSE IF args.direction = "up"
            THEN LET threshold == <<final_max_value[1] * coefficient[1], coefficient[2]>>
                 IN  GeneralResult(TRUE, IF args.max_value # None
                                         THEN clamp_above(args.max_value[1], threshold)
                                         ELSE threshold)
            ELSE \* threshold = max(min_value, threshold) is assigned and not returned:
                 \* the return statement divides final_max_value again
                 LET un_negated == 0 - final_max_value[1]
                 IN  GeneralResult(TRUE, <<un_negated * coefficient[2], coefficient[1]>>)

recommend_general_threshold_call ==
    /\ ~general_threshold.returned
    /\ general_threshold' = recommend_general_threshold(general_args)
    /\ UNCHANGED <<otherVars, keyVars, mergerVars, maximum_threshold_blocks, bothVars,
                   calcVars, general_args, lockVars, fetchVars>>

(* the arguments: MaxSamples values, one sample every 20 minutes, every half hour
   or every hour, or all at one instant *)
MaxSamples == 4
SampleValues == {10, 12, 30}
SampleSteps == {0, 1200, 1800, 3600}

TimestampLists == {[i \in 1..MaxSamples |-> (i - 1) * step] : step \in SampleSteps}

GeneralArgs ==
    [timestamp_list_original : TimestampLists,
     value_list_original : [1..MaxSamples -> SampleValues],
     window_size : {1, 2},
     ignore_count : {0, 1},
     min_value : {None, Some(9), Some(20)},
     max_value : {None, Some(15)},
     direction : {"up", "down"},
     sensitivity : {0, 1}]

InitGeneral ==
    /\ InitOther /\ InitNoKey /\ InitNoMerger /\ InitNoBoth /\ InitNoCalc
    /\ maximum_threshold_blocks = DEFAULT_MAXIMUM_THRESHOLD_BLOCKS
    /\ general_args \in GeneralArgs
    /\ general_threshold = NotReturned
    /\ InitNoLock /\ InitNoFetch

NextGeneral == recommend_general_threshold_call

SpecGeneral == InitGeneral /\ [][NextGeneral]_vars

-----------------------------------------------------------------------------
(* Claims about the scheduler *)

(* request c goes before request r: higher priority, or the same and created earlier *)
Precedes(c, r) ==
    \/ c.priority > r.priority
    \/ c.priority = r.priority /\ c.created_at < r.created_at

(* C1: every admission of _process_queue starts, among the requests submitted and
   not yet started, one of highest priority and, within that priority, of earliest
   created_at: no request left waiting precedes the one started. *)
C1_PriorityAdmission ==
    [][\A k \in (Len(started) + 1)..Len(started') :
          LET r == requests'[started'[k]]
              before == {started'[j] : j \in 1..(k - 1)}
          IN  \A i \in (DOMAIN requests') \ before : ~Precedes(requests'[i], r)]_vars

(* a later submission of higher priority was started before an earlier one that
   waited, and two requests of one priority were started in created_at order *)
C1_Witness ==
    /\ \E j, k \in DOMAIN started :
          /\ j < k /\ started[j] > started[k]
          /\ requests[started[j]].priority > requests[started[k]].priority
    /\ \E j, k \in DOMAIN started :
          /\ 1 < j /\ j < k
          /\ requests[started[j]].priority = requests[started[k]].priority
          /\ requests[started[j]].created_at < requests[started[k]].created_at

IsPrefix(a, b) == Len(a) <= Len(b) /\ a = SubSeq(b, 1, Len(a))

(* C2 as stated: after the four scripted submissions to a fresh scheduler with one
   slot, the admission order is HIGH@1, HIGH@3, NORMAL@2, LOW@0. *)
C2_Original == Len(started) = Len(Script) => started = <<2, 4, 3, 1>>

(* C2 amended: LOW@0 finds the slot free and is started at once; once all four are
   submitted and the admissions so far follow LOW@0, HIGH@1, HIGH@3, NORMAL@2, they
   keep following it, so four submissions made while LOW@0 holds the slot are
   admitted in the order LOW@0, HIGH@1, HIGH@3, NORMAL@2. *)
C2_Follows == Len(requests) = Len(Script) /\ IsPrefix(started, <<1, 2, 4, 3>>)

C2_Amended ==
    /\ [](Len(requests) >= 1 => Len(started) >= 1 /\ started[1] = 1)
    /\ [][C2_Follows => C2_Follows']_vars

(* all four were submitted behind the running LOW@0 and then admitted *)
C2_Witness == C2_Follows /\ Len(started) = Len(Script)

(* the runs started by the scheduler that have not terminated *)
ActiveRuns == {rid \in DOMAIN calc_tasks : calc_tasks[rid].state = "pending"}
(* the runs whose completion hook has run *)
HookedRuns == {rid \in DOMAIN calc_tasks : calc_tasks[rid].state = "called"}
QueuedRids == {task_queue[i].rid : i \in DOMAIN task_queue}

(* C3: the number of runs started by the scheduler and not yet terminated is at
   most max_concurrent_tasks, also when requests share a task_id. *)
C3_ConcurrencyCap == Cardinality(ActiveRuns) <= max_concurrent_tasks

(* C4: what get_queue_status reports satisfies running_tasks <= max_concurrent_tasks
   and running_tasks + queue_size = the number of requests in flight.  A request is
   in flight from its submission until its run has terminated; the count is taken
   with either end of the interval between the end of the run and its completion
   hook, so that the formula fails only if it fails for both. *)
C4_StatusAccounting ==
    LET status == get_queue_status
        total == status.running_tasks + status.queue_size
    IN  /\ status.running_tasks <= status.max_concurrent_tasks
        /\ Cardinality(QueuedRids) + Cardinality(ActiveRuns) <= total
        /\ total <= Len(requests) - Cardinality(HookedRuns)

(* C5: a request only moves queued -> running -> finished: it leaves the queue only
   by being started, it is started at most once and never queued again, and its
   entry leaves the running map only when its own run has terminated. *)
C5_Lifecycle ==
    [][/\ \A rid \in QueuedRids :
             rid \in QueuedRids' \/ (rid \in DOMAIN calc_tasks' /\ rid \notin DOMAIN calc_tasks)
       /\ \A j, k \in DOMAIN started' : j # k => started'[j] # started'[k]
       /\ \A rid \in DOMAIN calc_tasks :
             /\ rid \notin QueuedRids'
             /\ calc_tasks[rid].state # "pending" => calc_tasks'[rid].state # "pending"
       /\ \A key \in DOMAIN running_tasks :
             (key \notin DOMAIN running_tasks' \/ running_tasks'[key] # running_tasks[key])
                 => calc_tasks[running_tasks[key]].state # "pending"]_vars

(* C6: when every started run terminates and submissions stop, the completion hook
   runs for every run, every queued request is started, and the scheduler ends with
   an empty queue and an empty running map, whatever the runs end with. *)
Drained ==
    /\ Len(task_queue) = 0
    /\ DOMAIN running_tasks = {}
    /\ \A rid \in DOMAIN requests : rid \in HookedRuns

C6_Drains == <>[]Drained

(* drained after a request was started behind a run that had raised *)
C6_Witness ==
    /\ Drained
    /\ Len(requests) = MaxFairSubmit
    /\ \E j, k \in DOMAIN started :
          /\ j < k
          /\ calc_tasks[started[j]].outcome.kind = "exception"
          /\ max_concurrent_tasks = 1

(* C7: for every way a run can end, the completion hook issues exactly one status
   update for the request's (task_id, task_version): Success with the returned
   results exactly when the run returned status Success, otherwise Failed, with
   "Task {id} was cancelled" for a cancelled run, the exception text for a run that
   raised, the NoData message and the empty list for NoData, and the returned
   message for a returned Failed. *)
C7_UpdateFor(rid, u) ==
    LET o == calc_tasks[rid].outcome
        returned(st) == o.kind = "returned" /\ o.status = st
    IN  /\ u.task_id = requests[rid].task_id
        /\ u.task_version = requests[rid].task_version
        /\ u.status \in {SUCCESS, FAILED}
        /\ u.status = SUCCESS <=> returned("Success")
        /\ returned("Success") => u.result = o.result
        /\ returned("NoData") => u.result = "[]" /\ u.message.fmt = o.message
        /\ returned("Failed") => u.message.fmt = o.message
        /\ o.kind = "cancelled" =>
              u.message.fmt = "Task {id} was cancelled" /\ u.message.id = u.task_id
        /\ o.kind = "exception" => u.message.arg = o.text

C7_HookUpdate ==
    \A rid \in DOMAIN requests :
        LET us == {u \in update_tasks : u.rid = rid}
        IN  IF rid \in HookedRuns
            THEN Cardinality(us) = 1 /\ \A u \in us : C7_UpdateFor(rid, u)
            ELSE us = {}

(* the hook ran for a run that returned NoData and for a cancelled run *)
C7_Witness ==
    /\ \E rid \in HookedRuns : calc_tasks[rid].outcome = RetNoData
    /\ \E rid \in HookedRuns : calc_tasks[rid].outcome = Cancelled

(* C8: for one run completion update_task_result is attempted at most 3 times, never
   again after an attempt succeeded or after the third failed; giving up raises
   nothing into the scheduler: an attempt changes no scheduler state, and a queued
   request still has a run, a done callback or a _process_queue task ahead of it. *)
C8_Admission ==
    Len(task_queue) > 0 =>
        \/ pq_tasks > 0
        \/ \E rid \in DOMAIN calc_tasks : calc_tasks[rid].state \in {"pending", "finished"}

C8_BoundedRetry ==
    /\ [](/\ \A u \in update_tasks :
               /\ u.attempt_number <= 3
               /\ u.state = "gave_up" => u.attempt_number = 3
               /\ u.state = "retrying" => u.attempt_number < 3
          /\ C8_Admission)
    /\ [][/\ \A u \in update_tasks : u.state # "retrying" => u \in update_tasks'
          /\ (\E u \in update_tasks : u \notin update_tasks') =>
                 UNCHANGED <<task_queue, running_tasks, calc_tasks, pq_tasks, started, storeVars>>]_vars

(* one update gave up after its third failure, and the request queued behind that
   run was started all the same; another update succeeded on a retry *)
C8_Witness ==
    /\ \E u \in update_tasks : u.state = "gave_up" /\ u.rid = 1
    /\ \E u \in update_tasks : u.state = "returned" /\ u.attempt_number = 2
    /\ Len(started) = 2

-----------------------------------------------------------------------------
(* Claims about the store, the task API and the auto-refresh driver *)

C9_PersistenceLost ==
    /\ detail.version > 0
    /\ \E u \in update_tasks :
          u.task_id = AutoTask /\ u.task_version = detail.version /\ u.state = "gave_up"

C9_Reconciled ==
    /\ <<AutoTask, detail.version>> \in DOMAIN versions
    /\ versions[<<AutoTask, detail.version>>].status # RUNNING
    /\ detail.intelligent_threshold_task_status # "Processing"

(* C9: once every persistence attempt for the terminated run of the detail's version
   has failed, auto-refresh eventually reconciles the stored state: the version is
   no longer Running and the detail's calculation status is no longer Processing. *)
C9_EventuallyReconciled == C9_PersistenceLost ~> C9_Reconciled

(* C10: whatever step is taken, a stored TaskVersion's status changes only from
   Running to Success or from Running to Failed. *)
C10_TerminalStatus ==
    [][\A k \in DOMAIN versions \cap DOMAIN versions' :
          versions'[k].status # versions[k].status =>
              versions[k].status = RUNNING /\ versions'[k].status \in {SUCCESS, FAILED}]_vars

(* the creations that stored their version: rerun_task calls past their insert, and
   Phase A once it has saved the detail with the new version *)
StoredByCall == {i \in DOMAIN calls : calls[i].op = "rerun_task" /\ calls[i].pc \in {"done", "except"}}

VersionsOf(store, task_id) == {k[2] : k \in {x \in DOMAIN store : x[1] = task_id}}

(* C11: under concurrent rerun_task calls and Phase A for one task, no two creations
   store the same (task_id, version); a creation that stores a version stores
   latest + 1 for the latest it read, above every version the task had; a creation
   that fails leaves the store as it was. *)
C11_VersionsUnique ==
    /\ [](/\ \A i, j \in StoredByCall :
               i # j /\ calls[i].task_id = calls[j].task_id => calls[i].version # calls[j].version
          /\ \A i \in StoredByCall :
               calls[i].task_id = AutoTask /\ detail.version > 0 => calls[i].version # detail.version)
    /\ [][/\ \A i \in DOMAIN calls :
               calls[i].op = "rerun_task" /\ calls[i].pc = "insert" /\ calls'[i].pc # "insert" =>
                   IF calls'[i].pc \in {"done", "except"}
                   THEN /\ calls[i].version = calls[i].latest + 1
                        /\ <<calls[i].task_id, calls[i].version>> \in DOMAIN versions'
                        /\ \A v \in VersionsOf(versions, calls[i].task_id) : v < calls[i].version
                   ELSE versions' = versions
          /\ ar[1].pc = "A_insert" /\ ar'[1].pc # "A_insert" =>
                   IF detail'.version # detail.version
                   THEN /\ detail'.version = ar[1].latest + 1
                        /\ <<AutoTask, detail'.version>> \in DOMAIN versions'
                        /\ \A v \in VersionsOf(versions, AutoTask) : v < detail'.version
                   ELSE versions' = versions]_vars

(* two rerun_task calls and Phase A all read the same latest version; one stored
   the next version, the others were refused, and a later one stored the one after *)
C11_Witness ==
    /\ Len(calls) = MaxReruns
    /\ \E i, j \in DOMAIN calls :
          /\ i # j /\ calls[i].latest = calls[j].latest
          /\ calls[i].pc \in {"done", "except"} /\ calls[j].pc = "error"
    /\ detail.version > 0

(* C12: initialize_auto_refresh_task for the auto_update task is all-or-nothing: when
   it returns, the record is Processing and the task's detail is the Pending detail
   with version 0; when it raises, neither the record nor a detail is in the store. *)
C12_AllOrNothing ==
    [][\A i \in DOMAIN calls' :
          /\ calls'[i].op = "initialize_auto_refresh_task"
          /\ AutoTask \in tasks
          /\ i \in DOMAIN calls => calls[i].pc # calls'[i].pc
          =>
          /\ calls'[i].pc = "done" => record_status' = "Processing" /\ detail' = PendingDetail
          /\ calls'[i].pc = "error" => record_status' = "none" /\ detail' = NoDetail]_vars

(* C13: in every state reached through initialize and process, the detail has
   status Completed exactly when its calculation status is Failed or its alarm
   inject status is Success or Failed. *)
C13_DetailInvariant ==
    detail # NoDetail =>
        (detail.status = "Completed" <=>
            \/ detail.intelligent_threshold_task_status = "Failed"
            \/ detail.alarm_inject_status \in {"Success", "Failed"})

(* nothing has failed: the task and its AlarmSyncRecord exist, no store operation of
   initialize or of a phase raised, the agent took the request, the run returned
   Success, its result was persisted and the rule sync succeeded *)
C14_Happy ==
    /\ AutoTask \in tasks /\ alarm_sync_record
    /\ \A i \in DOMAIN calls : calls[i].pc \notin {"rollback", "error"}
    /\ ar[1].pc \notin {"raised", "C_raised"}
    /\ ~(detail.status = "Completed" /\ detail.intelligent_threshold_task_status = "Processing")
    /\ \A rid \in DOMAIN calc_tasks : calc_tasks[rid].outcome \in {NoOutcome, RetSuccess}
    /\ \A u \in update_tasks : u.state # "gave_up"
    /\ detail.alarm_inject_status # "Failed"

C14_Final ==
    /\ detail.status = "Completed"
    /\ detail.intelligent_threshold_task_status = "Success"
    /\ detail.alarm_inject_status = "Success"
    /\ record_status = "Completed"

(* C14: with one auto_update task that has a latest version and an AlarmSyncRecord,
   and with the recomputation and the rule sync succeeding, initialize followed by
   process ends with the detail Completed, Success, Success and the record
   Completed. *)
C14_HappyPath == []C14_Happy => <>[]C14_Final

(* reached in the fourth iteration of the first call of process, the least possible *)
C14_Witness == C14_Final /\ C14_Happy /\ ar[1].iteration_count = 4 /\ detail.version = 2

(* C15: a call of process_record_detail_tasks runs at most max_iterations
   iterations, and it leaves the loop before the bound exactly when Phase C finds no
   Processing detail and sets the record Completed. *)
C15_BoundedLoop ==
    [][/\ ar'[1].iteration_count <= MaxIterations
       /\ (ar[1].pc \notin {"idle", "raised"} /\ ar'[1].pc \in {"idle", "raised"}) =>
             \/ ar[1].pc \in {"while", "C_raised"} /\ ar[1].iteration_count = MaxIterations
             \/ ar[1].pc = "C" /\ detail.status # "Processing" /\ record_status' = "Completed"]_vars

(* the iteration bound alone *)
C15_IterationBound == ar[1].iteration_count <= MaxIterations

-----------------------------------------------------------------------------
(* Claims about the rule synchronizer *)

Desired == {unique_key(version_result[i]) :
               i \in {j \in DOMAIN version_result : version_result[j] # NoHostname}}
Live == existing_triggers \ {NoDescription}
Planned(type) == {i \in DOMAIN operations : operations[i].type = type}
ToCreate == {operations[i].unique_key : i \in Planned("create")}
ToUpdate == {operations[i].unique_key : i \in Planned("update")}
ToDelete == UNION {operations[i].unique_keys : i \in Planned("delete")}

(* C16: sync_rules plans a create for exactly the desired keys that are not live, an
   update for exactly the desired keys that are live and a delete for exactly the
   live keys that are not desired, each key once, and the three sets are pairwise
   disjoint. *)
C16_Diff ==
    sync.pc \in {"gather", "returned"} =>
        /\ ToCreate = Desired \ Live
        /\ ToUpdate = Desired \cap Live
        /\ ToDelete = Live \ Desired
        /\ ToCreate \cap ToUpdate = {} /\ ToCreate \cap ToDelete = {} /\ ToUpdate \cap ToDelete = {}
        /\ Cardinality(Planned("create")) = Cardinality(ToCreate)
        /\ Cardinality(Planned("update")) = Cardinality(ToUpdate)
        /\ Cardinality(Planned("delete")) <= 1

(* one sync that creates, updates and deletes, the live triggers holding one
   without description *)
C16_Witness ==
    /\ sync.pc = "gather"
    /\ ToCreate # {} /\ ToUpdate # {} /\ ToDelete # {}
    /\ NoDescription \in existing_triggers

(* C17: every operation is attempted at most 3 times, and one whose function raised
   on every call was invoked 3 times and is recorded as failed. *)
C17_ThreeAttempts ==
    /\ \A i \in DOMAIN op_tasks : op_tasks[i].invoked <= 3
    /\ sync.pc = "returned" =>
          \A i \in DOMAIN op_tasks :
              op_tasks[i].state = "raised" =>
                  op_tasks[i].invoked = 3 /\ i \in sync.returned.failed

(* what the loop does: max_retries + 1 calls before the exception leaves the task *)
C17_Attempts ==
    /\ \A i \in DOMAIN op_tasks : op_tasks[i].invoked <= max_retries + 1
    /\ sync.pc = "returned" =>
          \A i \in DOMAIN op_tasks :
              op_tasks[i].state = "raised" =>
                  op_tasks[i].invoked = max_retries + 1 /\ i \in sync.returned.failed

(* the outcome of every operation is in the returned result: the failed ones in
   failed, the others counted by type *)
Accounted ==
    LET r == sync.returned
        ok(type) == {i \in Planned(type) : op_tasks[i].state = "success"}
    IN  /\ \A i \in DOMAIN op_tasks : op_tasks[i].state \in {"success", "error", "raised"}
        /\ r.failed = {i \in DOMAIN op_tasks : op_tasks[i].state \in {"error", "raised"}}
        /\ r.created = Cardinality(ok("create"))
        /\ r.updated = Cardinality(ok("update"))
        /\ r.deleted = Cardinality(UNION {operations[i].unique_keys : i \in ok("delete")})
        /\ r.total = r.created + r.updated + r.deleted + Cardinality(r.failed)

(* C20: all operations of a sync are started together; a step of one operation,
   its failure included, changes no other operation; execute_operations returns,
   and then every operation has its own outcome, every failed one is in failed and
   total = created + updated + deleted + failed. *)
C20_IndependentOperations ==
    /\ [](sync.pc = "gather" =>
             /\ Len(op_tasks) = Len(operations)
             /\ \A i \in DOMAIN op_tasks : op_tasks[i].state # "cancelled")
    /\ [][sync.pc = "gather" =>
             \A i, j \in DOMAIN op_tasks :
                 i # j /\ op_tasks'[i] # op_tasks[i] => op_tasks'[j] = op_tasks[j]]_vars
    /\ [](sync.pc = "returned" => Accounted)
    /\ (sync.pc = "gather" ~> sync.pc = "returned")

(* a sync returned with one operation that raised on every call, one whose result
   was an error and one that succeeded *)
C20_Witness ==
    /\ sync.pc = "returned"
    /\ \E i, j, k \in DOMAIN op_tasks :
          /\ op_tasks[i].state = "raised"
          /\ op_tasks[j].state = "error"
          /\ op_tasks[k].state = "success"
    /\ Cardinality(sync.returned.failed) = 2

(* the grants from the i-th to the j-th, and the length of the interval they span *)
GrantCount(i, j) == j - i + 1
GrantSpan(i, j) == grants[j][2] - grants[i][2]

(* C18 as stated: the tokens granted within any interval of length T are at most
   qps * T + 1 (in ticks and token units: count * TicksPerToken <= span +
   TicksPerToken). *)
C18_Original ==
    \A i, j \in DOMAIN grants :
        i <= j => GrantCount(i, j) * TicksPerToken <= GrantSpan(i, j) + TicksPerToken

(* C18: the tokens granted within any interval of length T are at most
   qps * T + qps, the bucket holding up to qps tokens when the interval starts. *)
C18_Amended ==
    \A i, j \in DOMAIN grants :
        i <= j => GrantCount(i, j) * TicksPerToken <= GrantSpan(i, j) + qps * TicksPerToken

(* at qps = 2 a full bucket gave two tokens at once and two more as they refilled,
   a caller having slept for one: the amended bound is met with equality *)
C18_Witness ==
    /\ qps = 2 /\ Len(grants) = MaxCallers
    /\ grants[1][2] = grants[2][2]
    /\ GrantCount(1, Len(grants)) * TicksPerToken
           = GrantSpan(1, Len(grants)) + qps * TicksPerToken
    /\ \E k \in DOMAIN grants : grants[k][2] > callers[grants[k][1]].arrived

(* C19: a token is never granted to a caller while a caller that invoked
   acquire_token earlier is still waiting for one. *)
C19_Fifo ==
    [][\A k \in (Len(grants) + 1)..Len(grants') :
          \A i \in 1..(grants'[k][1] - 1) :
              i \in DOMAIN callers => callers[i].pc # "sleep"]_vars

-----------------------------------------------------------------------------
(* Claims about the task API, continued *)

(* C28: a create_task whose submission to the agent failed ends in an error, and
   when it has ended neither the task nor its version 1 is in the store; nothing but
   a new create_task call puts them there afterwards. *)
C28_CreateRollback ==
    [][/\ \A i \in DOMAIN calls :
             /\ calls[i].op = "create_task"
             /\ calls[i].pc = "rollback"
             /\ calls'[i].pc # "rollback"
             => /\ calls'[i].pc = "error"
                /\ calls[i].task_id \notin tasks'
                /\ <<calls[i].task_id, 1>> \notin DOMAIN versions'
       /\ Len(calls') = Len(calls) =>
             /\ tasks' \subseteq tasks
             /\ DOMAIN versions' \subseteq DOMAIN versions]_vars

(* the agent took the request of a create_task that never saw the reply; the call
   was rolled back, the run ended and its result was written to no row *)
C28_Witness ==
    /\ \E i \in DOMAIN calls : calls[i].op = "create_task" /\ calls[i].pc = "error"
    /\ \E u \in update_tasks : u.task_id = NewTask /\ u.state = "returned"
    /\ NewTask \notin tasks
    /\ <<NewTask, 1>> \notin DOMAIN versions

(* C29: a pass of Phase A over a detail that is not Completed and whose calculation
   status is Failed leaves it with status Completed. *)
C29_FailedCompleted ==
    [][/\ ar[1].pc = "A" /\ ar'[1].pc = "B"
       /\ detail.status \notin {"Completed", "none"}
       /\ detail.intelligent_threshold_task_status = "Failed"
       => detail'.status = "Completed"]_vars

(* C30: at most one call of the process endpoint is inside the body of the loop of
   process_record_detail_tasks, running Phase A, B or C on the record, at any time *)
InLoopBody(d) == ar[d].pc \in {"A", "A_read", "A_insert", "B", "B_sync", "C"}

C30_SingleDriver ==
    \A d, e \in DOMAIN ar : InLoopBody(d) /\ InLoopBody(e) => d = e

(* C27: the key generate_unique_key returned for a name and a dict of labels is the
   key of every dict with the same name and the same set of pairs, whatever the
   insertion order, and lists the labels in ascending lexicographic key order *)
Ascending(items) ==
    \A i, j \in DOMAIN items : i < j => StrLess(items[i][1], items[j][1])

Canonical(pairs) ==
    CHOOSE items \in [1..Cardinality(pairs) -> pairs] :
        Range(items) = pairs /\ Ascending(items)

C27_UniqueKey ==
    ts_key # NoKey =>
        LET canonical == Canonical(Range(ts_labels))
        IN  /\ ts_key = generate_unique_key(ts_name, ts_labels)
            /\ ts_key = ts_name \o Bar \o
                        join(Comma, [i \in DOMAIN canonical |->
                            canonical[i][1] \o Equals \o canonical[i][2]])

C27_Witness ==
    /\ ts_key = <<97, 124, 97, 61, 120, 44, 97, 98, 61, 121, 44, 98, 61, 120>>
    /\ ts_labels = << <<(<<98>>), (<<120>>)>>, <<(<<97, 98>>), (<<121>>)>>, <<(<<97>>), (<<120>>)>> >>

(* C22: the list merge_continuous_thresholds returns has at most
   maximum_threshold_blocks blocks *)
C22_BlockCap ==
    merged_thresholds.returned =>
        Len(merged_thresholds.thresholds) <= maximum_threshold_blocks

(* C23: when every block of a direction=up list has an upper bound, the blocks cover
   the day, all upper bounds lie within 10% of their maximum and all blocks have the
   same window_size, merge_continuous_thresholds returns the one block [0,24] whose
   upper bound is that maximum *)
WithinTenth(bound, max_bound) == (max_bound - bound) * 10 <= abs(max_bound)

C23_Tolerant ==
    /\ thresholds # <<>>
    /\ \A i \in DOMAIN thresholds :
          /\ thresholds[i].upper_bound # None
          /\ thresholds[i].lower_bound = None
          /\ thresholds[i].window_size = thresholds[1].window_size
          /\ WithinTenth(thresholds[i].upper_bound[1], max(upper_bounds(thresholds)))

C23_Consolidation ==
    merged_thresholds.returned /\ C23_Tolerant =>
        merged_thresholds.thresholds =
            <<IntelligentThresholdConfig(0, 24, Some(max(upper_bounds(thresholds))), None,
                                         thresholds[1].window_size)>>

C23_Witness ==
    /\ merged_thresholds.returned /\ C23_Tolerant
    /\ Len(thresholds) = DEFAULT_NUMBER_OF_TIME_SPLIT
    /\ thresholds[1].start_hour > 0
    /\ upper_bounds(thresholds) = {9, 10}
    /\ merged_thresholds.thresholds = <<IntelligentThresholdConfig(0, 24, Some(10), None, 5)>>

(* the keys both sides of the merge have, and the result of a key on a side *)
BothKeys ==
    {up_results[i].unique_key : i \in DOMAIN up_results} \cap
    {down_results[i].unique_key : i \in DOMAIN down_results}

ResultOf(results, key) == CHOOSE r \in Range(results) : r.unique_key = key

MergedOnce(key) ==
    Cardinality({i \in DOMAIN merged_results.results :
                    merged_results.results[i].unique_key = key}) = 1

(* C24 (as stated): when up is the one block [0,24] with upper bound 80 and down has
   four blocks with pairwise distinct lower bounds, the merged result has four
   blocks, one for each block of down with its hours and lower bound and with upper
   bound 80 *)
C24_Scenario(key) ==
    LET up == ResultOf(up_results, key)
        down == ResultOf(down_results, key)
    IN  /\ up.status = "Success" /\ down.status = "Success"
        /\ up.thresholds \in {<<IntelligentThresholdConfig(0, 24, Some(80), None, w)>> :
                                  w \in WindowSizes}
        /\ Len(down.thresholds) = 4
        /\ \A i, j \in DOMAIN down.thresholds :
              /\ down.thresholds[i].lower_bound # None
              /\ down.thresholds[i].lower_bound = down.thresholds[j].lower_bound => i = j

C24_FourBlocks(key) ==
    LET down == ResultOf(down_results, key)
        merged == ResultOf(merged_results.results, key)
    IN  /\ merged.status = "Success"
        /\ Len(merged.thresholds) = 4
        /\ \A i \in DOMAIN down.thresholds :
              [down.thresholds[i] EXCEPT !.upper_bound = Some(80)] \in Range(merged.thresholds)

C24_Original ==
    merged_results.returned =>
        \A key \in BothKeys : C24_Scenario(key) => MergedOnce(key) /\ C24_FourBlocks(key)

(* C24 (amended): in that case the merged result has the four blocks exactly when no
   two blocks of down that follow each other in the day have the same window_size
   and lower bounds within 10% of the larger one; such blocks are merged into one,
   so the result has fewer than four blocks *)
CloseNeighbours(configs) ==
    \E i, j \in DOMAIN configs :
        /\ configs[i].end_hour = configs[j].start_hour
        /\ configs[i].window_size = configs[j].window_size
        /\ abs(configs[i].lower_bound[1] - configs[j].lower_bound[1]) * 10
              <= max({configs[i].lower_bound[1], configs[j].lower_bound[1]})

C24_Amended ==
    merged_results.returned =>
        \A key \in BothKeys : C24_Scenario(key) =>
            /\ MergedOnce(key)
            /\ IF CloseNeighbours(ResultOf(down_results, key).thresholds)
               THEN Len(ResultOf(merged_results.results, key).thresholds) < 4
               ELSE C24_FourBlocks(key)

C24_Witness ==
    /\ merged_results.returned
    /\ "k1" \in BothKeys /\ C24_Scenario("k1") /\ C24_FourBlocks("k1")
    /\ ~CloseNeighbours(ResultOf(down_results, "k1").thresholds)
    /\ ResultOf(down_results, "k1").thresholds[1].start_hour = 18
    /\ {20, 21} \subseteq lower_bounds(ResultOf(down_results, "k1").thresholds)

(* C25: for every key both sides have, when a side is not Success the merged result is
   Failed with no thresholds and the error message of the failed side (of up when
   both failed), and when both sides are Success it is Success *)
C25_EitherFailed ==
    merged_results.returned =>
        \A key \in BothKeys :
            LET up == ResultOf(up_results, key)
                down == ResultOf(down_results, key)
                merged == ResultOf(merged_results.results, key)
            IN  /\ MergedOnce(key)
                /\ IF up.status # "Success" \/ down.status # "Success"
                   THEN /\ merged.status = "Failed"
                        /\ merged.thresholds = <<>>
                        /\ merged.error_message =
                              IF up.status # "Success" THEN up.error_message
                              ELSE down.error_message
                   ELSE merged.status = "Success"

C25_Witness ==
    /\ merged_results.returned
    /\ BothKeys = {"k1", "k2"}
    /\ ResultOf(up_results, "k1").status = "Success"
    /\ ResultOf(down_results, "k1").status = "Failed"
    /\ ResultOf(merged_results.results, "k1") =
          FailedResult("k1", "down: Internal Server Error")
    /\ ResultOf(merged_results.results, "k2").status = "Success"

(* C21: in every result with thresholds that a run with direction up or down returns,
   the blocks are strictly ordered by start_hour, do not overlap, and cover [0,24] *)
OrderedCover(configs) ==
    /\ configs[1].start_hour = 0
    /\ Last(configs).end_hour = 24
    /\ \A i \in DOMAIN configs : configs[i].start_hour < configs[i].end_hour
    /\ \A i \in 1..(Len(configs) - 1) : configs[i].end_hour = configs[i + 1].start_hour

C21_BlockCoverage ==
    response.returned /\ direction \in {"up", "down"} =>
        \A i \in DOMAIN response.result :
            response.result[i].thresholds # <<>> => OrderedCover(response.result[i].thresholds)

(* C26: a run that fetched series returns Success when at least one result it returns
   is Success, and Failed when none is *)
C26_OverallStatus ==
    response.returned /\ response.result # <<>> =>
        IF \E i \in DOMAIN response.result : response.result[i].status = "Success"
        THEN response.status = "Success"
        ELSE response.status = "Failed"

(* C31: when the blocks given to merge_continuous_thresholds are ordered, contiguous
   and cover [0,24], blocks without any bound included, the blocks it returns are
   ordered, contiguous and cover [0,24] *)
C31_CoverPreserved ==
    merged_thresholds.returned /\ thresholds # <<>> /\ OrderedCover(thresholds) =>
        /\ merged_thresholds.thresholds # <<>>
        /\ OrderedCover(merged_thresholds.thresholds)

(* the keys only one side of the merge has, and the result of such a key on its side *)
OneSideKeys ==
    ({up_results[i].unique_key : i \in DOMAIN up_results} \cup
     {down_results[i].unique_key : i \in DOMAIN down_results}) \ BothKeys

SideOf(key) == ResultOf(up_results \o down_results, key)

(* C32 (as stated): a result whose key is on one side only is returned with the
   thresholds list, the status and the error message it has on that side *)
C32_Original ==
    merged_results.returned =>
        \A key \in OneSideKeys :
            MergedOnce(key) /\ ResultOf(merged_results.results, key) = SideOf(key)

(* C32 (amended): a result whose key is on one side only is returned with the status
   and the error message it has on that side; its thresholds list is the same when
   at most one of its blocks has a bound, and otherwise it is made of the blocks
   with a bound, in the order of the day and joined into longer blocks: every block
   with a bound lies in exactly one returned block, every returned block starts and
   ends with such blocks and carries the largest upper and the smallest lower bound
   of those in it, and two blocks that follow each other with the same window_size
   and the same bounds are never returned as two blocks *)
Within(inner, outer) ==
    outer.start_hour <= inner.start_hour /\ inner.end_hour <= outer.end_hour

C32_Joined(valid, returned) ==
    /\ \A i, j \in DOMAIN returned : i < j => returned[i].end_hour <= returned[j].start_hour
    /\ \A i \in DOMAIN valid :
          Cardinality({j \in DOMAIN returned : Within(valid[i], returned[j])}) = 1
    /\ \A j \in DOMAIN returned :
          LET inside == {i \in DOMAIN valid : Within(valid[i], returned[j])}
              uppers == {valid[i].upper_bound[1] : i \in {k \in inside : valid[k].upper_bound # None}}
              lowers == {valid[i].lower_bound[1] : i \in {k \in inside : valid[k].lower_bound # None}}
          IN  /\ \E i \in inside : valid[i].start_hour = returned[j].start_hour
              /\ \E i \in inside : valid[i].end_hour = returned[j].end_hour
              /\ returned[j].upper_bound = IF uppers = {} THEN None ELSE Some(max(uppers))
              /\ returned[j].lower_bound = IF lowers = {} THEN None ELSE Some(min(lowers))
    /\ (\E i, j \in DOMAIN valid :
           /\ valid[i].end_hour = valid[j].start_hour
           /\ valid[i].window_size = valid[j].window_size
           /\ valid[i].upper_bound = valid[j].upper_bound
           /\ valid[i].lower_bound = valid[j].lower_bound)
       => Len(returned) < Len(valid)

C32_Amended ==
    merged_results.returned =>
        \A key \in OneSideKeys :
            LET side == SideOf(key)
                merged == ResultOf(merged_results.results, key)
                valid == SelectSeq(side.thresholds, has_bound)
            IN  /\ MergedOnce(key)
                /\ merged.status = side.status
                /\ merged.error_message = side.error_message
                /\ IF Len(valid) <= 1 THEN merged.thresholds = side.thresholds
                   ELSE C32_Joined(valid, merged.thresholds)

C32_Witness ==
    /\ merged_results.returned
    /\ OneSideKeys = {"k1"}
    /\ SideOf("k1").status = "Success"
    /\ Len(SideOf("k1").thresholds) = 4
    /\ \A i \in 1..4 : SideOf("k1").thresholds[i].lower_bound = Some(80)
    /\ ResultOf(merged_results.results, "k1").thresholds =
          <<IntelligentThresholdConfig(0, 24, None, Some(80), 5)>>

(* C33: for direction down with min_value given, when the clusters give a maximum,
   recommend_general_threshold returns max(M / c, min_value) in the original value
   domain, M being the un-negated final maximum and c the coefficient, so what it
   returns is never below min_value.  Two equal values sampled every half hour are
   a cluster of cluster_size points, so the clusters give a maximum *)
C33_Case ==
    /\ general_threshold.returned /\ general_threshold.status
    /\ general_args.direction = "down"
    /\ general_args.min_value # None
    /\ \E i, j \in 1..MaxSamples :
          /\ i # j
          /\ general_args.value_list_original[i] = general_args.value_list_original[j]
          /\ general_args.timestamp_list_original[2] = 1800

C33_MinValue ==
    C33_Case => ~FractionLess(general_threshold.threshold, <<general_args.min_value[1], 1>>)

(* C34: whenever the record is Completed, the detail of the record is Completed: no
   detail is Pending or Processing under a Completed record *)
C34_CompletedRecord ==
    record_status = "Completed" /\ detail # NoDetail => detail.status = "Completed"

(* C35: when the persistence of results never gives up, a version that Phase A
   inserted as Running eventually is Success or Failed, also when the call of the
   threshold agent failed *)
C35_PersistenceSucceeds == \A u \in update_tasks : u.state # "gave_up"

C35_InsertedRunning ==
    /\ detail.version > 1
    /\ <<AutoTask, detail.version>> \in DOMAIN versions
    /\ versions[<<AutoTask, detail.version>>].status = RUNNING

C35_Settled ==
    /\ <<AutoTask, detail.version>> \in DOMAIN versions
    /\ versions[<<AutoTask, detail.version>>].status \in {SUCCESS, FAILED}

C35_VersionSettles ==
    []C35_PersistenceSucceeds => (C35_InsertedRunning ~> C35_Settled)

(* C36: over all the iterations of one driver, Phase A creates at most one version
   and submits at most one request for the detail *)
C36_OncePerDetail ==
    /\ Cardinality({k \in DOMAIN versions : k[1] = AutoTask /\ k[2] > 1}) <= 1
    /\ Cardinality({i \in DOMAIN requests :
                       requests[i].task_id = AutoTask /\ requests[i].priority = LOW}) <= 1

C36_Witness ==
    /\ <<AutoTask, 2>> \in DOMAIN versions
    /\ versions[<<AutoTask, 2>>].status = RUNNING
    /\ Len(requests) = 1
    /\ detail.status = "Processing" /\ detail.version = 2
    /\ ar[1].pc = "B" /\ ar[1].iteration_count = MaxIterations

(* C37: a step of process calls the rule synchronizer for the detail only when the
   calculation status of the detail is Success and the task has an AlarmSyncRecord,
   and over the whole batch the synchronizer is called at most once for the detail *)
SyncCalls(d) == ar[d].sync_calls

RECURSIVE TotalSyncCalls(_)
TotalSyncCalls(drivers) ==
    IF drivers = {} THEN 0
    ELSE LET d == CHOOSE x \in drivers : TRUE
         IN  SyncCalls(d) + TotalSyncCalls(drivers \ {d})

C37_SyncOnce ==
    /\ [](TotalSyncCalls(DOMAIN ar) <= 1)
    /\ [][\A d \in DOMAIN ar :
             ar'[d].sync_calls > ar[d].sync_calls =>
                 /\ detail.intelligent_threshold_task_status = "Success"
                 /\ alarm_sync_record]_vars

(* C38: when the provider call of a create, update or delete raises on the first
   call of its operation, the operation is not ended by that call: its task is
   still running, to call the operation function again after the back-off, and
   only later can it be recorded as failed. *)
C38_ProviderRaiseRetried ==
    [][\A i \in DOMAIN op_tasks :
          (/\ op_tasks[i].invoked = 0
           /\ i \in DOMAIN op_tasks'
           /\ op_tasks'[i].invoked = 1
           /\ op_tasks'[i].client_raised)
          => op_tasks'[i].state = "running"]_vars

-----------------------------------------------------------------------------
(* queue_lock.  The scheduler's methods use task_queue and running_tasks in
   statements that are inside `async with self.queue_lock` or outside of it; the
   variable accesses collects every use made so far: the method, the object, whether
   it reads or writes, and whether the statement is inside the lock's block. *)
Access(by, object, kind) == [by |-> by, object |-> object, kind |-> kind, locked |-> FALSE]

(* async with self.queue_lock: the uses made by the body are made holding the lock
   (no body has an await in it, and no other coroutine runs meanwhile) *)
async_with_queue_lock(body) == {[a EXCEPT !.locked = TRUE] : a \in body}

(* _process_queue: the loop condition reads both; a pass of the loop pops the heap
   and stores the task in running_tasks *)
process_queue_accesses(q) ==
    async_with_queue_lock(
        {Access("_process_queue", "running_tasks", "read"),
         Access("_process_queue", "task_queue", "read")}
        \cup (IF process_queue(q).st # started
              THEN {Access("_process_queue", "task_queue", "write"),
                    Access("_process_queue", "running_tasks", "write")}
              ELSE {}))

(* handle_task: heappush and the two len() for the log line, then _process_queue *)
handle_task_accesses ==
    async_with_queue_lock(
        {Access("handle_task", "task_queue", "write"),
         Access("handle_task", "task_queue", "read"),
         Access("handle_task", "running_tasks", "read")})

(* _task_completion_callback: `if task_key in self.running_tasks: del ...` *)
task_completion_callback_accesses(rid) ==
    {Access("_task_completion_callback", "running_tasks", "read")}
    \cup (IF requests[rid].task_id \in DOMAIN running_tasks
          THEN {Access("_task_completion_callback", "running_tasks", "write")}
          ELSE {})

(* get_queue_status: the sizes and the priority counts inside the block, the
   running_task_ids of the returned dict after it *)
get_queue_status_accesses ==
    async_with_queue_lock(
        {Access("get_queue_status", "task_queue", "read"),
         Access("get_queue_status", "running_tasks", "read")})
    \cup {Access("get_queue_status", "running_tasks", "read")}

lockRest == <<tasks, calls, record_status, detail, alarm_sync_record, ar, limiterVars,
              syncVars, keyVars, mergerVars, maximum_threshold_blocks, bothVars, calcVars,
              generalVars, fetchVars>>

handle_task_call ==
    /\ Len(requests) < MaxLockSubmit
    /\ \E tid \in TaskIds, prio \in {NORMAL, HIGH} :
          /\ accesses' = accesses \cup handle_task_accesses
                 \cup process_queue_accesses(
                          heappush(task_queue,
                                   [rid |-> Len(requests) + 1, task_id |-> tid,
                                    task_version |-> NextVersionOf(tid),
                                    priority |-> prio, created_at |-> clock]))
          /\ handle_task(tid, NextVersionOf(tid), prio, clock)
    /\ UNCHANGED <<max_concurrent_tasks, pq_tasks, update_tasks, versions, lockRest>>

task_completion_callback_call ==
    /\ \E rid \in DOMAIN calc_tasks :
          /\ calc_tasks[rid].state = "finished"
          /\ accesses' = accesses \cup task_completion_callback_accesses(rid)
          /\ task_completion_callback(rid)
    /\ UNCHANGED <<max_concurrent_tasks, task_queue, started, requests, clock, versions,
                   lockRest>>

process_queue_call ==
    /\ pq_tasks > 0
    /\ accesses' = accesses \cup process_queue_accesses(task_queue)
    /\ LET s == process_queue(task_queue)
       IN  /\ task_queue' = s.q
           /\ running_tasks' = s.run
           /\ calc_tasks' = s.calc
           /\ started' = s.st
    /\ pq_tasks' = pq_tasks - 1
    /\ UNCHANGED <<max_concurrent_tasks, requests, clock, update_tasks, versions, lockRest>>

get_queue_status_call ==
    /\ accesses' = accesses \cup get_queue_status_accesses
    /\ UNCHANGED <<schedVars, versions, lockRest>>

(* SpecLock: the scheduler with one slot under submissions, completions and status
   queries *)
InitLock ==
    /\ InitSched /\ InitNoStore
    /\ max_concurrent_tasks = 1
    /\ versions = [k \in TaskIds \X (1..MaxLockSubmit) |-> RunningRow]

NextLock ==
    \/ handle_task_call
    \/ Terminate({RetSuccess})
    \/ task_completion_callback_call
    \/ process_queue_call
    \/ get_queue_status_call

SpecLock == InitLock /\ [][NextLock]_vars

(* C39: every write of task_queue or running_tasks, and every use of them by
   get_queue_status, is made inside the block of queue_lock. *)
C39_UnderLock ==
    \A a \in accesses : (a.kind = "write" \/ a.by = "get_queue_status") => a.locked

-----------------------------------------------------------------------------
(* ZabbixDataSource._fetch_one_slot (metrics/zabbix.py).  A history record is
   [itemid, clock]; the server holds a finite set of them, which does not change
   while the slot is fetched. *)
ItemIds == {1, 2, 3}
MaxHistoryClock == 2
HistoryRecords == [itemid : ItemIds, clock : 0..MaxHistoryClock]

(* the page size of the pagination loop, 5000 in the source *)
DEFAULT_PAGE_SIZE == 2

(* the calls of fetch_partial_data are counted modulo CallsModulus: the count tells
   one pass of the loop from the next, and the states stay finitely many *)
CallsModulus == 2

(* history.get with time_from, time_till, sortfield clock, sortorder ASC and limit:
   of the records with time_from <= clock (and clock <= time_till, if given), the
   first `limit` in ascending clock order; the order of records of one clock is the
   server's, so any such choice may be the page *)
eligible(time_from, time_till) ==
    {r \in history : r.clock >= time_from /\ (time_till = None \/ r.clock <= time_till[1])}

get_metric_data(time_from, time_till, page_size) ==
    LET E == eligible(time_from, time_till)
    IN  {page \in SUBSET E :
            /\ Cardinality(page) = Min(page_size, Cardinality(E))
            /\ \A a \in page, b \in E \ page : a.clock <= b.clock}

(* int(page_data[-1]["clock"]): the clock of the last record of an ascending page *)
last_clock_of(page) == CHOOSE c \in {r.clock : r \in page} : \A r \in page : r.clock <= c

(* one pass of the `while True` loop: the page is awaited (the call may raise, which
   _fetch_one_slot logs and raises again); an empty page ends the loop; otherwise
   the page is added, last_clock becomes the clock of its last record, and a page
   shorter than page_size ends the loop.  After the loop the records are
   deduplicated and converted without suspending; all_data holds the distinct
   records, which is what the deduplication keeps of the list. *)
fetch_one_slot_page ==
    /\ fetch.pc = "loop"
    /\ \/ fetch' = [fetch EXCEPT !.pc = "raised", !.calls = (@ + 1) % CallsModulus]
       \/ \E page_data \in get_metric_data(fetch.last_clock, fetch.time_till,
                                             DEFAULT_PAGE_SIZE) :
             IF page_data = {}
             THEN fetch' = [fetch EXCEPT !.pc = "returned",
                                         !.calls = (@ + 1) % CallsModulus]
             ELSE fetch' = [pc |-> IF Cardinality(page_data) < DEFAULT_PAGE_SIZE
                                   THEN "returned" ELSE "loop",
                            time_till |-> fetch.time_till,
                            last_clock |-> last_clock_of(page_data),
                            all_data |-> fetch.all_data \cup page_data,
                            calls |-> (fetch.calls + 1) % CallsModulus]
    /\ UNCHANGED <<otherVars, keyVars, mergerVars, maximum_threshold_blocks, bothVars,
                   calcVars, generalVars, lockVars, history>>

(* SpecFetch: one call of _fetch_one_slot(start, end) on any history; the event loop
   resumes the coroutine whenever the awaited page is there *)
InitFetch ==
    /\ InitOther /\ InitNoKey /\ InitNoMerger /\ InitNoBoth /\ InitNoCalc
    /\ maximum_threshold_blocks = DEFAULT_MAXIMUM_THRESHOLD_BLOCKS
    /\ InitNoGeneral /\ InitNoLock
    /\ history \in SUBSET HistoryRecords
    /\ \E start \in 0..1, end \in {None, Some(1), Some(MaxHistoryClock)} :
          fetch = [pc |-> "loop", time_till |-> end, last_clock |-> start, all_data |-> {},
                   calls |-> 0]

NextFetch == fetch_one_slot_page

SpecFetch == InitFetch /\ [][NextFetch]_vars /\ WF_vars(fetch_one_slot_page)

(* C40: _fetch_one_slot terminates on every finite history: the pagination loop
   is eventually left, by the return or by an exception. *)
C40_Terminates == <>(fetch.pc \in {"returned", "raised"})


====
